---- MODULE Spec2Model ----
(***************************************************************************)
(* te-ips (src/src/te-ips/te-ips.go): the aggregation of a sorted list of  *)
(* IP addresses into subnets, ranges and blocks, and the text rendering    *)
(* and containment tests of those aggregates.                              *)
(*                                                                         *)
(* A net.IP is a byte slice, modelled as a sequence of bytes.  Go index k  *)
(* is TLA+ index k+1.  net.ParseIP returns 16 bytes for either family, an  *)
(* IPv4 address in its IPv4-in-IPv6 form ::ffff:a.b.c.d; the nil slice is  *)
(* the empty sequence.  A fixed-width unsigned integer (uint32, uint64) is *)
(* kept as its big-endian base-256 numeral, so that no width is lost.      *)
(* A Go string is a sequence of one-character strings.                     *)
(***************************************************************************)
EXTENDS Integers, Sequences, FiniteSets, TLC

VARIABLES ips, mode, aggs, lines, recv, arg, ret, found, agents, flags

vars == <<ips, mode, aggs, lines, recv, arg, ret, found, agents, flags>>

Nil == <<>>

Min2(a, b) == IF a <= b THEN a ELSE b

Max2(a, b) == IF a >= b THEN a ELSE b

(***************************************************************************)
(* bytes, encoding/binary and fixed-width arithmetic                       *)
(***************************************************************************)

\* bytes.Compare: lexicographic, a proper prefix is smaller.
RECURSIVE BytesCompare(_, _)
BytesCompare(a, b) ==
  IF Len(a) = 0 /\ Len(b) = 0 THEN 0
  ELSE IF Len(a) = 0 THEN -1
  ELSE IF Len(b) = 0 THEN 1
  ELSE IF a[1] < b[1] THEN -1
  ELSE IF a[1] > b[1] THEN 1
  ELSE BytesCompare(Tail(a), Tail(b))

\* Go's a[lo:hi] with 0-based, half-open bounds.
Slice(a, lo, hi) == SubSeq(a, lo + 1, hi)

\* binary.BigEndian.Uint32 / Uint64 / Uint16 of a slice: the numeral itself.
Uint32(b) == Slice(b, 0, 4)

Uint64(b) == Slice(b, 0, 8)

Uint16(b) == b[1] * 256 + b[2]

\* u < v, u <= v on numerals of one width.
ULt(u, v) == BytesCompare(u, v) = -1

ULe(u, v) == BytesCompare(u, v) # 1

\* uintW(n) for a natural n: the W-byte numeral of n mod 256^W.
RECURSIVE UintOf(_, _)
UintOf(n, w) ==
  IF w = 0 THEN <<>> ELSE Append(UintOf(n \div 256, w - 1), n % 256)

\* u + uintW(n), wrapping at the width of u.
RECURSIVE UAdd(_, _)
UAdd(u, n) ==
  IF Len(u) = 0 THEN <<>>
  ELSE LET s == u[Len(u)] + (n % 256)
       IN  Append(UAdd(SubSeq(u, 1, Len(u) - 1), (n \div 256) + (s \div 256)),
                  s % 256)

\* u - v, wrapping at the width (borrow c is 0 or 1).
RECURSIVE USubB(_, _, _)
USubB(u, v, c) ==
  IF Len(u) = 0 THEN <<>>
  ELSE LET d == u[Len(u)] - v[Len(v)] - c
       IN  Append(USubB(SubSeq(u, 1, Len(u) - 1), SubSeq(v, 1, Len(v) - 1),
                        IF d < 0 THEN 1 ELSE 0),
                  (d + 256) % 256)

USub(u, v) == USubB(u, v, 0)

\* 2^k, math.Pow(2, k) for a small natural k.
RECURSIVE Pow2(_)
Pow2(k) == IF k = 0 THEN 1 ELSE 2 * Pow2(k - 1)

\* x & m on bytes.
RECURSIVE AndBits(_, _, _)
AndBits(x, m, k) ==
  IF k = 0 THEN 0
  ELSE 2 * AndBits(x \div 2, m \div 2, k - 1) + ((x % 2) * (m % 2))

ByteAnd(x, m) == AndBits(x, m, 8)

(***************************************************************************)
(* package net                                                             *)
(***************************************************************************)

v4InV6Prefix == <<0, 0, 0, 0, 0, 0, 0, 0, 0, 0, 255, 255>>

\* net.IPv4(a, b, c, d), what net.ParseIP returns for "a.b.c.d".
IPv4(a, b, c, d) == v4InV6Prefix \o <<a, b, c, d>>

\* An IPv6 address from its eight 16-bit groups.
IPv6(g) == [k \in 1..16 |-> IF k % 2 = 1 THEN g[(k + 1) \div 2] \div 256
                                           ELSE g[k \div 2] % 256]

\* ip.To4(): the 4-byte form, or nil when ip is no IPv4 address.
To4(ip) ==
  IF Len(ip) = 4 THEN ip
  ELSE IF Len(ip) = 16 /\ SubSeq(ip, 1, 12) = v4InV6Prefix THEN SubSeq(ip, 13, 16)
  ELSE Nil

\* net.CIDRMask(ones, bits)
CIDRMask(ones, bits) ==
  [k \in 1..(bits \div 8) |->
     IF ones >= 8 * k THEN 255
     ELSE IF ones <= 8 * (k - 1) THEN 0
     ELSE 256 - Pow2(8 * k - ones)]

\* mask.Size() for a mask made by CIDRMask: the number of leading ones.
RECURSIVE OnesOfByte(_)
OnesOfByte(m) == IF m < 128 THEN 0 ELSE 1 + OnesOfByte((2 * m) % 256)

RECURSIVE MaskOnes(_)
MaskOnes(mask) ==
  IF Len(mask) = 0 THEN 0
  ELSE IF mask[1] = 255 THEN 8 + MaskOnes(Tail(mask))
  ELSE OnesOfByte(mask[1])

MaskBits(mask) == 8 * Len(mask)

\* ip.Mask(mask)
Mask(ip, mask) ==
  LET m == IF Len(mask) = 16 /\ Len(ip) = 4 /\ \A k \in 1..12 : mask[k] = 255
           THEN SubSeq(mask, 13, 16) ELSE mask
      p == IF Len(m) = 4 /\ Len(ip) = 16 /\ SubSeq(ip, 1, 12) = v4InV6Prefix
           THEN SubSeq(ip, 13, 16) ELSE ip
  IN  IF Len(p) # Len(m) THEN Nil
      ELSE [k \in 1..Len(p) |-> ByteAnd(p[k], m[k])]

\* net.IPNet{IP, Mask}
IPNet(ip, mask) == [IP |-> ip, Mask |-> mask]

\* networkNumberAndMask(n): <<ip, mask>>, or <<Nil, Nil>>.
networkNumberAndMask(n) ==
  LET ip == IF To4(n.IP) # Nil THEN To4(n.IP) ELSE n.IP
  IN  IF To4(n.IP) = Nil /\ Len(n.IP) # 16 THEN <<Nil, Nil>>
      ELSE IF Len(n.Mask) = 4
           THEN IF Len(ip) # 4 THEN <<Nil, Nil>> ELSE <<ip, n.Mask>>
      ELSE IF Len(n.Mask) = 16
           THEN IF Len(ip) = 4 THEN <<ip, SubSeq(n.Mask, 13, 16)>>
                ELSE <<ip, n.Mask>>
      ELSE <<Nil, Nil>>

\* ipNet.Contains(ip)
IPNetContains(n, ip) ==
  LET nm == networkNumberAndMask(n)
      x  == IF To4(ip) # Nil THEN To4(ip) ELSE ip
  IN  /\ Len(x) = Len(nm[1])
      /\ \A k \in 1..Len(x) : ByteAnd(nm[1][k], nm[2][k]) = ByteAnd(x[k], nm[2][k])

(***************************************************************************)
(* text: strconv.Itoa, fmt %x, ip.String(), ipNet.String(), net.ParseIP    *)
(***************************************************************************)

Digits == <<"0", "1", "2", "3", "4", "5", "6", "7", "8", "9",
            "a", "b", "c", "d", "e", "f">>

\* strconv.Itoa(n) for n >= 0
RECURSIVE Itoa(_)
Itoa(n) == IF n < 10 THEN <<Digits[n + 1]>>
           ELSE Append(Itoa(n \div 10), Digits[(n % 10) + 1])

\* fmt.Sprintf("%x", n) for n >= 0: lower case, no leading zeros
RECURSIVE Hex(_)
Hex(n) == IF n < 16 THEN <<Digits[n + 1]>>
          ELSE Append(Hex(n \div 16), Digits[(n % 16) + 1])

\* The eight 16-bit groups of a 16-byte address.
Groups(ip) == [k \in 1..8 |-> ip[2 * k - 1] * 256 + ip[2 * k]]

\* The number of consecutive zero groups of g from position j on.
RECURSIVE ZeroRun(_, _)
ZeroRun(g, j) == IF j > Len(g) \/ g[j] # 0 THEN 0 ELSE 1 + ZeroRun(g, j + 1)

\* ip.String(), the loop that writes the groups once the zero run to
\* compress, e0 of length run (e0 = 0: none), is known.
RECURSIVE WriteGroups(_, _, _, _)
WriteGroups(g, k, e0, run) ==
  IF k > 8 THEN <<>>
  ELSE IF k = e0
       THEN <<":", ":">> \o (IF k + run > 8 THEN <<>>
                             ELSE Hex(g[k + run]) \o WriteGroups(g, k + run + 1, e0, run))
  ELSE (IF k > 1 THEN <<":">> ELSE <<>>) \o Hex(g[k]) \o WriteGroups(g, k + 1, e0, run)

\* ip.String(): dotted decimal for an IPv4 address, else the groups in hex
\* with the leftmost longest run of two or more zero groups written "::".
IPString(ip) ==
  IF Len(ip) = 0 THEN <<"<", "n", "i", "l", ">">>
  ELSE IF To4(ip) # Nil
       THEN LET p == To4(ip)
            IN  Itoa(p[1]) \o <<".">> \o Itoa(p[2]) \o <<".">> \o Itoa(p[3])
                  \o <<".">> \o Itoa(p[4])
  ELSE LET g    == Groups(ip)
           best == CHOOSE j \in 1..8 :
                     /\ \A k \in 1..8 : ZeroRun(g, k) <= ZeroRun(g, j)
                     /\ \A k \in 1..(j - 1) : ZeroRun(g, k) < ZeroRun(g, j)
       IN  IF ZeroRun(g, best) >= 2 THEN WriteGroups(g, 1, best, ZeroRun(g, best))
           ELSE WriteGroups(g, 1, 0, 0)

\* ipNet.String(): the address, "/", the number of leading ones of the mask.
IPNetString(n) == IPString(n.IP) \o <<"/">> \o Itoa(MaskOnes(n.Mask))

HexValue(c) == CHOOSE v \in 0..15 : Digits[v + 1] = c

IsHex(c) == \E v \in 1..16 : Digits[v] = c

\* xtoi: the length of the leading run of hex digits of s.
RECURSIVE HexRun(_)
HexRun(s) == IF Len(s) = 0 \/ ~IsHex(s[1]) THEN 0 ELSE 1 + HexRun(Tail(s))

\* xtoi: the value of the hex digits s after acc, 65536 standing for any
\* value above 0xFFFF.
RECURSIVE HexVal(_, _)
HexVal(s, acc) ==
  IF Len(s) = 0 THEN acc
  ELSE HexVal(Tail(s), Min2(65536, acc * 16 + HexValue(s[1])))

\* parseIPv6, after its loop: expand the ellipsis (ell groups precede it,
\* -1: none) or reject.
ParseFinish(s, g, ell) ==
  IF Len(s) # 0 THEN Nil
  ELSE IF Len(g) < 8
       THEN IF ell < 0 THEN Nil
            ELSE SubSeq(g, 1, ell) \o [k \in 1..(8 - Len(g)) |-> 0]
                   \o SubSeq(g, ell + 1, Len(g))
  ELSE IF ell >= 0 THEN Nil
  ELSE g

\* parseIPv6, the loop over the groups (no embedded IPv4 tail, no zone).
RECURSIVE ParseLoop(_, _, _)
ParseLoop(s, g, ell) ==
  IF Len(g) >= 8 THEN ParseFinish(s, g, ell)
  ELSE LET c == HexRun(s)
           n == HexVal(SubSeq(s, 1, c), 0)
       IN  IF c = 0 \/ n > 65535 THEN Nil
           ELSE LET g2 == Append(g, n)
                    s2 == SubSeq(s, c + 1, Len(s))
                IN  IF Len(s2) = 0 THEN ParseFinish(s2, g2, ell)
                    ELSE IF s2[1] # ":" \/ Len(s2) = 1 THEN Nil
                    ELSE IF s2[2] = ":"
                         THEN IF ell >= 0 THEN Nil
                              ELSE IF Len(s2) = 2 THEN ParseFinish(<<>>, g2, Len(g2))
                              ELSE ParseLoop(SubSeq(s2, 3, Len(s2)), g2, Len(g2))
                    ELSE ParseLoop(Tail(s2), g2, ell)

\* parseIPv6(s), for a text in colon-hex form: the 16 bytes, or nil.
parseIPv6(s) ==
  LET g == IF Len(s) >= 2 /\ s[1] = ":" /\ s[2] = ":"
           THEN IF Len(s) = 2 THEN [k \in 1..8 |-> 0]
                ELSE ParseLoop(SubSeq(s, 3, Len(s)), <<>>, 0)
           ELSE ParseLoop(s, <<>>, -1)
  IN  IF g = Nil THEN Nil ELSE IPv6(g)

\* dtoi: the length of the leading run of decimal digits of s.
RECURSIVE DecRun(_)
DecRun(s) ==
  IF Len(s) = 0 \/ ~(\E v \in 1..10 : Digits[v] = s[1]) THEN 0 ELSE 1 + DecRun(Tail(s))

\* dtoi: the value of the decimal digits s after acc, 65536 standing for
\* any value above 0xFFFF.
RECURSIVE DecValue(_, _)
DecValue(s, acc) ==
  IF Len(s) = 0 THEN acc
  ELSE DecValue(Tail(s), Min2(65536, acc * 10 + HexValue(s[1])))

\* parseIPv4(s), the loop over the four fields, p the bytes read so far
\* (fields written without leading zeros).
RECURSIVE parseIPv4(_, _)
parseIPv4(s, p) ==
  IF Len(p) = 4 THEN (IF Len(s) # 0 THEN Nil ELSE IPv4(p[1], p[2], p[3], p[4]))
  ELSE IF Len(s) = 0 THEN Nil
  ELSE IF Len(p) > 0 /\ s[1] # "." THEN Nil
  ELSE LET t == IF Len(p) > 0 THEN Tail(s) ELSE s
           c == DecRun(t)
           n == DecValue(SubSeq(t, 1, c), 0)
       IN  IF c = 0 \/ n > 255 THEN Nil
           ELSE parseIPv4(SubSeq(t, c + 1, Len(t)), Append(p, n))

\* net.ParseIP(s): the first "." or ":" of the text decides between
\* parseIPv4 and parseIPv6; 16 bytes, or nil.
ParseIP(s) ==
  LET K == {k \in 1..Len(s) : s[k] \in {".", ":"}}
  IN  IF K = {} THEN Nil
      ELSE IF s[CHOOSE k \in K : \A j \in K : k <= j] = "." THEN parseIPv4(s, <<>>)
      ELSE parseIPv6(s)

(***************************************************************************)
(* The scans.  Every aggregator walks ips from left to right with a cursor *)
(* iAlreadyCovered and skips the positions i <= iAlreadyCovered.  A        *)
(* position is 1-based here (Go's i + 1), iAlreadyCovered likewise (none   *)
(* covered: 0).  One turn of the outer loop that is not skipped is a Step  *)
(* operator returning the aggregate appended and the cursor it leaves; the *)
(* loop records with each aggregate the positions first..last it consumed. *)
(***************************************************************************)

\* for n := 1; n <= lim; n++ { if C(n) { ... } else { break } }:
\* the number of turns that took the first branch.
Run(lim, C(_)) ==
  LET bad == {n \in 1..lim : ~C(n)}
  IN  IF bad = {} THEN lim
      ELSE (CHOOSE m \in bad : \A k \in bad : m <= k) - 1

Consumed(p, cov) == [first |-> p, last |-> Max2(p, cov)]

\* SubnetStrictTry with the test of the following addresses passing where
\* the list has ended (len(ips) > i+n dropped).
SubnetStrictTry_NoLenCheck(ips_, p, parentLen) ==
  LET parentMask   == CIDRMask(parentLen, 32)
      parentSubnet == IPNet(Mask(ips_[p], parentMask), parentMask)
      maxHosts     == Pow2(32 - parentLen)
  IN  [subnet |-> parentSubnet,
       hosts  |-> maxHosts,
       all    |-> \A n \in 1..(maxHosts - 1) :
                    p + n > Len(ips_) \/ IPNetContains(parentSubnet, ips_[p + n])]

\* ipsToSubnetsStrict, IPv4 branch, one candidate parentLen: the subnet and
\* whether the maxHostsInSubnet - 1 following addresses all lie in it.
SubnetStrictTry(ips_, p, parentLen) ==
  LET parentMask   == CIDRMask(parentLen, 32)
      parentSubnet == IPNet(Mask(ips_[p], parentMask), parentMask)
      maxHosts     == Pow2(32 - parentLen)
  IN  [subnet |-> parentSubnet,
       hosts  |-> maxHosts,
       all    |-> \A n \in 1..(maxHosts - 1) :
                    p + n <= Len(ips_) /\ IPNetContains(parentSubnet, ips_[p + n])]

\* SubnetStrictStep with minParentLen = 31: nothing wider than a /31 is
\* tried.
SubnetStrictStep_MinLen31(ips_, p, cov) ==
  IF To4(ips_[p]) # Nil
  THEN LET L == CHOOSE l \in 31..32 :
                  /\ SubnetStrictTry(ips_, p, l).all
                  /\ \A k \in 31..(l - 1) : ~SubnetStrictTry(ips_, p, k).all
           t == SubnetStrictTry(ips_, p, L)
       IN  [agg |-> t.subnet, covered |-> p + t.hosts - 1]
  ELSE [agg |-> IPNet(ips_[p], CIDRMask(128, 128)), covered |-> cov]

\* SubnetStrictStep with the loop over parentLen run from 32 down to 24:
\* the first length that succeeds is 32.
SubnetStrictStep_NarrowestFirst(ips_, p, cov) ==
  IF To4(ips_[p]) # Nil
  THEN LET L == CHOOSE l \in 24..32 :
                  /\ SubnetStrictTry(ips_, p, l).all
                  /\ \A k \in (l + 1)..32 : ~SubnetStrictTry(ips_, p, k).all
           t == SubnetStrictTry(ips_, p, L)
       IN  [agg |-> t.subnet, covered |-> p + t.hosts - 1]
  ELSE [agg |-> IPNet(ips_[p], CIDRMask(128, 128)), covered |-> cov]

\* ipsToSubnetsStrict, one turn of the outer loop at position p.
SubnetStrictStep(ips_, p, cov) ==
  IF To4(ips_[p]) # Nil
  THEN LET L == CHOOSE l \in 24..32 :
                  /\ SubnetStrictTry(ips_, p, l).all
                  /\ \A k \in 24..(l - 1) : ~SubnetStrictTry(ips_, p, k).all
           t == SubnetStrictTry(ips_, p, L)
       IN  [agg |-> t.subnet, covered |-> p + t.hosts - 1]
  ELSE [agg |-> IPNet(ips_[p], CIDRMask(128, 128)), covered |-> cov]

RECURSIVE SubnetStrictLoop(_, _, _)
SubnetStrictLoop(ips_, p, acc) ==
  IF p > Len(ips_) THEN acc
  ELSE LET r == SubnetStrictStep(ips_, p, p - 1)
       IN  SubnetStrictLoop(ips_, Max2(p, r.covered) + 1,
                            Append(acc, [agg |-> r.agg] @@ Consumed(p, r.covered)))

\* ipsToSubnetsStrict(ips)
ipsToSubnetsStrict(ips_) ==
  LET t == SubnetStrictLoop(ips_, 1, <<>>) IN [k \in 1..Len(t) |-> t[k].agg]

\* SubnetLooseV4 with iAlreadyCovered = i + previousSubnetHosts (the - 1
\* left out).
RECURSIVE SubnetLooseV4_OffByOne(_, _, _, _, _, _)
SubnetLooseV4_OffByOne(ips_, p, cov, parentLen, previousSubnetHosts, previousSubnet) ==
  LET parentMask   == CIDRMask(parentLen, 32)
      parentSubnet == IPNet(Mask(ips_[p], parentMask), parentMask)
      maxHosts     == Pow2(32 - parentLen)
      hostsInSubnet == 1 + Run(Min2(maxHosts - 1, Len(ips_) - p),
                               LAMBDA n : IPNetContains(parentSubnet, ips_[p + n]))
  IN  IF hostsInSubnet >= previousSubnetHosts
      THEN IF parentLen = 32
           THEN [agg |-> parentSubnet, covered |-> cov]
           ELSE SubnetLooseV4_OffByOne(ips_, p, cov, parentLen + 1, hostsInSubnet, parentSubnet)
      ELSE [agg |-> previousSubnet, covered |-> p + previousSubnetHosts]

\* SubnetLooseV4 stopping at the first prefix length that holds fewer
\* addresses than /24 did (previousSubnetHosts never updated).
RECURSIVE SubnetLooseV4_StrictlyMore(_, _, _, _, _, _)
SubnetLooseV4_StrictlyMore(ips_, p, cov, parentLen, previousSubnetHosts, previousSubnet) ==
  LET parentMask   == CIDRMask(parentLen, 32)
      parentSubnet == IPNet(Mask(ips_[p], parentMask), parentMask)
      maxHosts     == Pow2(32 - parentLen)
      hostsInSubnet == 1 + Run(Min2(maxHosts - 1, Len(ips_) - p),
                               LAMBDA n : IPNetContains(parentSubnet, ips_[p + n]))
  IN  IF hostsInSubnet > previousSubnetHosts
      THEN IF parentLen = 32
           THEN [agg |-> parentSubnet, covered |-> cov]
           ELSE SubnetLooseV4_StrictlyMore(ips_, p, cov, parentLen + 1, hostsInSubnet,
                                           parentSubnet)
      ELSE [agg |-> previousSubnet, covered |-> p + previousSubnetHosts - 1]

\* ipsToSubnetsLoose, IPv4 branch: the loop over parentLen, entered with
\* previousSubnetHosts and previousSubnet.
RECURSIVE SubnetLooseV4(_, _, _, _, _, _)
SubnetLooseV4(ips_, p, cov, parentLen, previousSubnetHosts, previousSubnet) ==
  LET parentMask   == CIDRMask(parentLen, 32)
      parentSubnet == IPNet(Mask(ips_[p], parentMask), parentMask)
      maxHosts     == Pow2(32 - parentLen)
      hostsInSubnet == 1 + Run(Min2(maxHosts - 1, Len(ips_) - p),
                               LAMBDA n : IPNetContains(parentSubnet, ips_[p + n]))
  IN  IF hostsInSubnet >= previousSubnetHosts
      THEN IF parentLen = 32
           THEN [agg |-> parentSubnet, covered |-> cov]
           ELSE SubnetLooseV4(ips_, p, cov, parentLen + 1, hostsInSubnet, parentSubnet)
      ELSE [agg |-> previousSubnet, covered |-> p + previousSubnetHosts - 1]

\* The IPv6 lookahead of ipsToSubnetsLoose: for n := 1; n < 1000; n++
Lookahead6 == 1000

\* SubnetLooseStep with the IPv6 lookahead one position shorter
\* (for n := 1; n < 999; n++).
SubnetLooseStep_ShortLookahead(ips_, p, cov) ==
  IF To4(ips_[p]) # Nil
  THEN SubnetLooseV4(ips_, p, cov, 24, 0, IPNet(Nil, Nil))
  ELSE LET parentMask   == CIDRMask(64, 128)
           parentSubnet == IPNet(Mask(ips_[p], parentMask), parentMask)
           hostsInSubnet == 1 + Run(Min2(Lookahead6 - 2, Len(ips_) - p),
                                    LAMBDA n : IPNetContains(parentSubnet, ips_[p + n]))
       IN  [agg |-> parentSubnet,
            covered |-> IF hostsInSubnet # 1 THEN p + hostsInSubnet - 1 ELSE cov]

\* ipsToSubnetsLoose, one turn of the outer loop at position p.
SubnetLooseStep(ips_, p, cov) ==
  IF To4(ips_[p]) # Nil
  THEN SubnetLooseV4(ips_, p, cov, 24, 0, IPNet(Nil, Nil))
  ELSE LET parentMask   == CIDRMask(64, 128)
           parentSubnet == IPNet(Mask(ips_[p], parentMask), parentMask)
           hostsInSubnet == 1 + Run(Min2(Lookahead6 - 1, Len(ips_) - p),
                                    LAMBDA n : IPNetContains(parentSubnet, ips_[p + n]))
       IN  [agg |-> parentSubnet,
            covered |-> IF hostsInSubnet # 1 THEN p + hostsInSubnet - 1 ELSE cov]

RECURSIVE SubnetLooseLoop(_, _, _)
SubnetLooseLoop(ips_, p, acc) ==
  IF p > Len(ips_) THEN acc
  ELSE LET r == SubnetLooseStep(ips_, p, p - 1)
       IN  SubnetLooseLoop(ips_, Max2(p, r.covered) + 1,
                           Append(acc, [agg |-> r.agg] @@ Consumed(p, r.covered)))

\* ipsToSubnetsLoose(ips)
ipsToSubnetsLoose(ips_) ==
  LET t == SubnetLooseLoop(ips_, 1, <<>>) IN [k \in 1..Len(t) |-> t[k].agg]

\* IPRange{StartIP, EndIP} and IPBlock{StartIP, EndIP}
IPRange(a, b) == [StartIP |-> a, EndIP |-> b]

IPBlock(a, b) == [StartIP |-> a, EndIP |-> b]

\* The result of an inner loop that took its first branch m times, each
\* time setting EndIP = ips[i+n] and iAlreadyCovered = i + n.
Extended(ips_, p, cov, m) ==
  [agg     |-> [StartIP |-> ips_[p], EndIP |-> IF m = 0 THEN ips_[p] ELSE ips_[p + m]],
   covered |-> IF m = 0 THEN cov ELSE p + m]

\* RangeStrictJoins4 without the test ips[i+n].To4() != nil, the value read
\* from the last four bytes of the 16-byte address.
RangeStrictJoins4_Last4(ip, ipn, n) ==
  Uint32(Slice(ipn, 12, 16)) = UAdd(Uint32(To4(ip)), n)

\* RangeStrictJoins4 with >= in place of ==: any later address joins.
RangeStrictJoins4_AtLeast(ip, ipn, n) ==
  /\ To4(ipn) # Nil
  /\ ULe(UAdd(Uint32(To4(ip)), n), Uint32(To4(ipn)))

\* ipsToIPRangesStrict, the test of the IPv4 branch on ips[i+n]
RangeStrictJoins4(ip, ipn, n) ==
  /\ To4(ipn) # Nil
  /\ Uint32(To4(ipn)) = UAdd(Uint32(To4(ip)), n)

\* RangeStrictJoins6 comparing the whole 128-bit values, the upper halves
\* not tested for equality.
RangeStrictJoins6_Whole(ip, ipn, n) ==
  /\ To4(ipn) = Nil
  /\ ipn = UAdd(ip, n)

\* ipsToIPRangesStrict, the test of the IPv6 branch on ips[i+n]
RangeStrictJoins6(ip, ipn, n) ==
  /\ To4(ipn) = Nil
  /\ BytesCompare(Slice(ipn, 0, 8), Slice(ip, 0, 8)) = 0
  /\ Uint64(Slice(ipn, 8, 16)) = UAdd(Uint64(Slice(ip, 8, 16)), n)

\* ipsToIPRangesStrict, one turn of the outer loop at position p.
RangeStrictStep(ips_, p, cov) ==
  IF To4(ips_[p]) # Nil
  THEN Extended(ips_, p, cov,
                Run(Len(ips_) - p, LAMBDA n : RangeStrictJoins4(ips_[p], ips_[p + n], n)))
  ELSE Extended(ips_, p, cov,
                Run(Len(ips_) - p, LAMBDA n : RangeStrictJoins6(ips_[p], ips_[p + n], n)))

RECURSIVE RangeStrictLoop(_, _, _)
RangeStrictLoop(ips_, p, acc) ==
  IF p > Len(ips_) THEN acc
  ELSE LET r == RangeStrictStep(ips_, p, p - 1)
       IN  RangeStrictLoop(ips_, Max2(p, r.covered) + 1,
                           Append(acc, [agg |-> r.agg] @@ Consumed(p, r.covered)))

\* The early returns shared by the range and block aggregators, with the
\* consumed positions: no aggregate for no address, one for one.
Short(ips_) ==
  IF Len(ips_) = 0 THEN <<>>
  ELSE <<[agg |-> [StartIP |-> ips_[1], EndIP |-> ips_[1]], first |-> 1, last |-> 1]>>

RangeStrictScan(ips_) ==
  IF Len(ips_) <= 1 THEN Short(ips_) ELSE RangeStrictLoop(ips_, 1, <<>>)

\* ipsToIPRangesStrict(ips)
ipsToIPRangesStrict(ips_) ==
  LET t == RangeStrictScan(ips_) IN [k \in 1..Len(t) |-> t[k].agg]

\* RangeLooseJoins4 with the bound n in place of n*255.
RangeLooseJoins4_Times1(ip, ipn, n) ==
  /\ To4(ipn) # Nil
  /\ ULt(USub(Uint32(To4(ipn)), Uint32(To4(ip))), UintOf(n, 4))

\* RangeLooseJoins4 with the bound 255 whatever n is.
RangeLooseJoins4_Flat(ip, ipn, n) ==
  /\ To4(ipn) # Nil
  /\ ULt(USub(Uint32(To4(ipn)), Uint32(To4(ip))), UintOf(255, 4))

\* ipsToIPRangesLoose, the test of the IPv4 branch on ips[i+n]
RangeLooseJoins4(ip, ipn, n) ==
  /\ To4(ipn) # Nil
  /\ ULt(USub(Uint32(To4(ipn)), Uint32(To4(ip))), UintOf(n * 255, 4))

\* ipsToIPRangesLoose, the test of the IPv6 branch on ips[i+n]
RangeLooseJoins6(ip, ipn, n) ==
  /\ To4(ipn) = Nil
  /\ BytesCompare(Slice(ipn, 0, 8), Slice(ip, 0, 8)) = 0

\* ipsToIPRangesLoose, one turn of the outer loop at position p.
RangeLooseStep(ips_, p, cov) ==
  IF To4(ips_[p]) # Nil
  THEN Extended(ips_, p, cov,
                Run(Len(ips_) - p, LAMBDA n : RangeLooseJoins4(ips_[p], ips_[p + n], n)))
  ELSE Extended(ips_, p, cov,
                Run(Len(ips_) - p, LAMBDA n : RangeLooseJoins6(ips_[p], ips_[p + n], n)))

RECURSIVE RangeLooseLoop(_, _, _)
RangeLooseLoop(ips_, p, acc) ==
  IF p > Len(ips_) THEN acc
  ELSE LET r == RangeLooseStep(ips_, p, p - 1)
       IN  RangeLooseLoop(ips_, Max2(p, r.covered) + 1,
                          Append(acc, [agg |-> r.agg] @@ Consumed(p, r.covered)))

RangeLooseScan(ips_) ==
  IF Len(ips_) <= 1 THEN Short(ips_) ELSE RangeLooseLoop(ips_, 1, <<>>)

\* ipsToIPRangesLoose(ips)
ipsToIPRangesLoose(ips_) ==
  LET t == RangeLooseScan(ips_) IN [k \in 1..Len(t) |-> t[k].agg]

\* ipsToIPBlocksStrict, the two tests of the IPv4 branch on ips[i+n]:
\* "D part contiguous" compares the whole 32-bit values, "C part contiguous,
\* D part equal" compares the third bytes in uint8 and the fourth bytes.
BlockStrictJoins4(ip, ipn, n) ==
  LET ip4 == To4(ip)
      ipN == To4(ipn)
  IN  \/ ipN # Nil /\ Uint32(ipN) = UAdd(Uint32(ip4), n)
      \/ ipN # Nil /\ ipN[3] = (ip4[3] + (n % 256)) % 256 /\ ip4[4] = ipN[4]

\* ipsToIPBlocksStrict, the test of the IPv6 branch on ips[i+n]
BlockStrictJoins6(ip, ipn, n) ==
  /\ To4(ipn) = Nil
  /\ BytesCompare(Slice(ipn, 0, 8), Slice(ip, 0, 8)) = 0
  /\ Uint64(Slice(ipn, 8, 16)) = UAdd(Uint64(Slice(ip, 8, 16)), n)

\* ipsToIPBlocksStrict, one turn of the outer loop at position p.
BlockStrictStep(ips_, p, cov) ==
  IF To4(ips_[p]) # Nil
  THEN Extended(ips_, p, cov,
                Run(Len(ips_) - p, LAMBDA n : BlockStrictJoins4(ips_[p], ips_[p + n], n)))
  ELSE Extended(ips_, p, cov,
                Run(Len(ips_) - p, LAMBDA n : BlockStrictJoins6(ips_[p], ips_[p + n], n)))

RECURSIVE BlockStrictLoop(_, _, _)
BlockStrictLoop(ips_, p, acc) ==
  IF p > Len(ips_) THEN acc
  ELSE LET r == BlockStrictStep(ips_, p, p - 1)
       IN  BlockStrictLoop(ips_, Max2(p, r.covered) + 1,
                           Append(acc, [agg |-> r.agg] @@ Consumed(p, r.covered)))

BlockStrictScan(ips_) ==
  IF Len(ips_) <= 1 THEN Short(ips_) ELSE BlockStrictLoop(ips_, 1, <<>>)

\* ipsToIPBlocksStrict(ips)
ipsToIPBlocksStrict(ips_) ==
  LET t == BlockStrictScan(ips_) IN [k \in 1..Len(t) |-> t[k].agg]

\* BlockLooseJoins4 with the first two octets left out of the second test.
BlockLooseJoins4_AnyPrefix(ip, ipn, n) ==
  LET ip4 == To4(ip)
      ipN == To4(ipn)
  IN  \/ /\ ipN # Nil
         /\ ip4[4] # ipN[4] /\ ip4[1] = ipN[1] /\ ip4[2] = ipN[2] /\ ip4[3] = ipN[3]
      \/ /\ ipN # Nil
         /\ ip4[3] # ipN[3] /\ ip4[4] = ipN[4]

\* ipsToIPBlocksLoose, the two tests of the IPv4 branch on ips[i+n]
BlockLooseJoins4(ip, ipn, n) ==
  LET ip4 == To4(ip)
      ipN == To4(ipn)
  IN  \/ /\ ipN # Nil
         /\ ip4[4] # ipN[4] /\ ip4[1] = ipN[1] /\ ip4[2] = ipN[2] /\ ip4[3] = ipN[3]
      \/ /\ ipN # Nil
         /\ ip4[3] # ipN[3] /\ ip4[1] = ipN[1] /\ ip4[2] = ipN[2] /\ ip4[4] = ipN[4]

\* BlockLooseJoins6 as the comment above the test words it ("last 64 bits
\* must be one after another"): the test of the strict branch.
BlockLooseJoins6_Contiguous(ip, ipn, n) ==
  /\ To4(ipn) = Nil
  /\ BytesCompare(Slice(ipn, 0, 8), Slice(ip, 0, 8)) = 0
  /\ Uint64(Slice(ipn, 8, 16)) = UAdd(Uint64(Slice(ip, 8, 16)), n)

\* ipsToIPBlocksLoose, the test of the IPv6 branch on ips[i+n]
BlockLooseJoins6(ip, ipn, n) ==
  /\ To4(ipn) = Nil
  /\ BytesCompare(Slice(ipn, 0, 8), Slice(ip, 0, 8)) = 0

\* ipsToIPBlocksLoose, one turn of the outer loop at position p.
BlockLooseStep(ips_, p, cov) ==
  IF To4(ips_[p]) # Nil
  THEN Extended(ips_, p, cov,
                Run(Len(ips_) - p, LAMBDA n : BlockLooseJoins4(ips_[p], ips_[p + n], n)))
  ELSE Extended(ips_, p, cov,
                Run(Len(ips_) - p, LAMBDA n : BlockLooseJoins6(ips_[p], ips_[p + n], n)))

RECURSIVE BlockLooseLoop(_, _, _)
BlockLooseLoop(ips_, p, acc) ==
  IF p > Len(ips_) THEN acc
  ELSE LET r == BlockLooseStep(ips_, p, p - 1)
       IN  BlockLooseLoop(ips_, Max2(p, r.covered) + 1,
                          Append(acc, [agg |-> r.agg] @@ Consumed(p, r.covered)))

BlockLooseScan(ips_) ==
  IF Len(ips_) <= 1 THEN Short(ips_) ELSE BlockLooseLoop(ips_, 1, <<>>)

\* ipsToIPBlocksLoose(ips)
ipsToIPBlocksLoose(ips_) ==
  LET t == BlockLooseScan(ips_) IN [k \in 1..Len(t) |-> t[k].agg]

(***************************************************************************)
(* Containment and rendering of the aggregates                             *)
(***************************************************************************)

\* IPRange.Contains with the lower halves compared strictly where the upper
\* half of ip equals that of StartIP only (> for >=).
IPRangeContains_StrictLow(r, ip) ==
  IF To4(ip) # Nil /\ To4(r.StartIP) # Nil /\ To4(r.EndIP) # Nil
  THEN /\ ULe(Uint32(To4(r.StartIP)), Uint32(To4(ip)))
       /\ ULe(Uint32(To4(ip)), Uint32(To4(r.EndIP)))
  ELSE IF To4(ip) = Nil /\ To4(r.StartIP) = Nil /\ To4(r.EndIP) = Nil
  THEN LET ipHi == Uint64(Slice(ip, 0, 8))
           ipLo == Uint64(Slice(ip, 8, 16))
           sHi  == Uint64(Slice(r.StartIP, 0, 8))
           sLo  == Uint64(Slice(r.StartIP, 8, 16))
           eHi  == Uint64(Slice(r.EndIP, 0, 8))
           eLo  == Uint64(Slice(r.EndIP, 8, 16))
       IN  \/ ULt(sHi, ipHi) /\ ULt(ipHi, eHi)
           \/ BytesCompare(Slice(ip, 0, 8), Slice(r.StartIP, 0, 8)) = 0
                /\ ULt(ipHi, eHi) /\ ULt(sLo, ipLo)
           \/ ULt(sHi, ipHi)
                /\ BytesCompare(Slice(ip, 0, 8), Slice(r.EndIP, 0, 8)) = 0
                /\ ULe(ipLo, eLo)
           \/ BytesCompare(Slice(ip, 0, 8), Slice(r.StartIP, 0, 8)) = 0
                /\ BytesCompare(Slice(ip, 0, 8), Slice(r.EndIP, 0, 8)) = 0
                /\ ULe(sLo, ipLo) /\ ULe(ipLo, eLo)
  ELSE FALSE

\* IPRange.Contains(ip), for an ip of 4 or 16 bytes
IPRangeContains(r, ip) ==
  IF To4(ip) # Nil /\ To4(r.StartIP) # Nil /\ To4(r.EndIP) # Nil
  THEN /\ ULe(Uint32(To4(r.StartIP)), Uint32(To4(ip)))
       /\ ULe(Uint32(To4(ip)), Uint32(To4(r.EndIP)))
  ELSE IF To4(ip) = Nil /\ To4(r.StartIP) = Nil /\ To4(r.EndIP) = Nil
  THEN LET ipHi == Uint64(Slice(ip, 0, 8))
           ipLo == Uint64(Slice(ip, 8, 16))
           sHi  == Uint64(Slice(r.StartIP, 0, 8))
           sLo  == Uint64(Slice(r.StartIP, 8, 16))
           eHi  == Uint64(Slice(r.EndIP, 0, 8))
           eLo  == Uint64(Slice(r.EndIP, 8, 16))
       IN  \/ ULt(sHi, ipHi) /\ ULt(ipHi, eHi)
           \/ BytesCompare(Slice(ip, 0, 8), Slice(r.StartIP, 0, 8)) = 0
                /\ ULt(ipHi, eHi) /\ ULe(sLo, ipLo)
           \/ ULt(sHi, ipHi)
                /\ BytesCompare(Slice(ip, 0, 8), Slice(r.EndIP, 0, 8)) = 0
                /\ ULe(ipLo, eLo)
           \/ BytesCompare(Slice(ip, 0, 8), Slice(r.StartIP, 0, 8)) = 0
                /\ BytesCompare(Slice(ip, 0, 8), Slice(r.EndIP, 0, 8)) = 0
                /\ ULe(sLo, ipLo) /\ ULe(ipLo, eLo)
  ELSE FALSE

\* IPBlock.Contains(ip), for an ip of 4 or 16 bytes
IPBlockContains(b, ip) ==
  IF To4(ip) # Nil /\ To4(b.StartIP) # Nil /\ To4(b.EndIP) # Nil
  THEN /\ ULe(Uint32(To4(b.StartIP)), Uint32(To4(ip)))
       /\ ULe(Uint32(To4(ip)), Uint32(To4(b.EndIP)))
  ELSE IF To4(ip) = Nil /\ To4(b.StartIP) = Nil /\ To4(b.EndIP) = Nil
  THEN LET ipHi == Uint64(Slice(ip, 0, 8))
           ipLo == Uint64(Slice(ip, 8, 16))
           sHi  == Uint64(Slice(b.StartIP, 0, 8))
           sLo  == Uint64(Slice(b.StartIP, 8, 16))
           eHi  == Uint64(Slice(b.EndIP, 0, 8))
           eLo  == Uint64(Slice(b.EndIP, 8, 16))
       IN  \/ ULt(sHi, ipHi) /\ ULt(ipHi, eHi)
           \/ BytesCompare(Slice(ip, 0, 8), Slice(b.StartIP, 0, 8)) = 0
                /\ ULt(ipHi, eHi) /\ ULe(sLo, ipLo)
           \/ ULt(sHi, ipHi)
                /\ BytesCompare(Slice(ip, 0, 8), Slice(b.EndIP, 0, 8)) = 0
                /\ ULe(ipLo, eLo)
           \/ BytesCompare(Slice(ip, 0, 8), Slice(b.StartIP, 0, 8)) = 0
                /\ BytesCompare(Slice(ip, 0, 8), Slice(b.EndIP, 0, 8)) = 0
                /\ ULe(sLo, ipLo) /\ ULe(ipLo, eLo)
  ELSE FALSE

\* SubnetLine without the test s == t: always ipNet.String().
SubnetLine_AlwaysCIDR(n) == IPNetString(n)

\* A line of outputSubnetListStrict / outputSubnetListLoose: the bare
\* address when the mask is as long as the address, else ipNet.String().
SubnetLine(n) ==
  IF MaskOnes(n.Mask) = MaskBits(n.Mask) THEN IPString(n.IP) ELSE IPNetString(n)

\* IPRange.String()
IPRangeString(r) ==
  IF BytesCompare(r.StartIP, r.EndIP) # 0
  THEN IPString(r.StartIP) \o <<" ", "-", " ">> \o IPString(r.EndIP)
  ELSE IPString(r.StartIP)

\* What a rendering that aborts leaves instead of a text: the runtime panic
\* "slice bounds out of range".  No text equals it.
Panic == <<"panic: slice bounds out of range">>

\* strings.Contains(s, sub)
StrContains(s, sub) ==
  \E k \in 0..(Len(s) - Len(sub)) : SubSeq(s, k + 1, k + Len(sub)) = sub

\* IPBlock.String, IPv6 branch, the loop over b = 0, 2, .., 14 that splits
\* the groups into firstStr (Start and End agree up to and including the
\* group) and startStr / endStr, every group followed by ":".
RECURSIVE BlockSplit(_, _, _, _)
BlockSplit(S, E, b, acc) ==
  IF b > 14 THEN acc
  ELSE BlockSplit(S, E, b + 2,
         IF BytesCompare(Slice(S, 0, b + 2), Slice(E, 0, b + 2)) = 0
         THEN [acc EXCEPT !.firstStr = @ \o Hex(Uint16(Slice(S, b, b + 2))) \o <<":">>,
                          !.firstLen = b + 2]
         ELSE [acc EXCEPT !.startStr = @ \o Hex(Uint16(Slice(S, b, b + 2))) \o <<":">>,
                          !.endStr   = @ \o Hex(Uint16(Slice(E, b, b + 2))) \o <<":">>])

\* FakePrefix with every group of the prefix written 0 instead of i+1.
RECURSIVE FakePrefix_Zero(_, _)
FakePrefix_Zero(i, firstLen) ==
  IF i * 2 < firstLen THEN <<"0", ":">> \o FakePrefix_Zero(i + 1, firstLen)
  ELSE <<>>

\* for i := 0; i*2 < firstLen; i++ { fakePrefix += "%x:" of i+1 }
RECURSIVE FakePrefix(_, _)
FakePrefix(i, firstLen) ==
  IF i * 2 < firstLen THEN Hex(i + 1) \o <<":">> \o FakePrefix(i + 1, firstLen)
  ELSE <<>>

\* IPBlock.String, IPv6 branch, the three ways to put the parts together.
BlockJoin(firstStr, startStr, endStr) ==
  IF /\ Len(startStr) > 1 /\ Len(endStr) > 1
     /\ startStr[1] = ":" /\ endStr[1] = ":"
     /\ SubSeq(startStr, 1, 2) # <<":", ":">>
     /\ SubSeq(endStr, 1, 2) # <<":", ":">>
  THEN firstStr \o <<":", "[">> \o Tail(startStr) \o <<"-">> \o Tail(endStr) \o <<"]">>
  ELSE IF Len(startStr) = 0 THEN Panic
  ELSE IF startStr[1] # ":" /\ Len(endStr) = 0 THEN Panic
  ELSE IF startStr[1] = ":" \/ endStr[1] = ":"
       THEN IF Len(firstStr) = 0 THEN Panic
            ELSE SubSeq(firstStr, 1, Len(firstStr) - 1) \o <<"[", ":">> \o startStr
                   \o <<"-", ":">> \o endStr \o <<"]">>
  ELSE firstStr \o <<"[">> \o startStr \o <<"-">> \o endStr \o <<"]">>

\* IPBlock.String, IPv6 branch with StartIP # EndIP
IPBlockString6(S, E) ==
  LET sp == BlockSplit(S, E, 0, [firstStr |-> <<>>, startStr |-> <<>>,
                                 endStr |-> <<>>, firstLen |-> 0])
  IN  IF Len(sp.startStr) = 0 \/ Len(sp.endStr) = 0 THEN Panic
      ELSE LET startStr1  == SubSeq(sp.startStr, 1, Len(sp.startStr) - 1)
               endStr1    == SubSeq(sp.endStr, 1, Len(sp.endStr) - 1)
               fakePrefix == FakePrefix(0, sp.firstLen)
               fakeStart  == IPString(ParseIP(fakePrefix \o startStr1))
               fakeEnd    == IPString(ParseIP(fakePrefix \o endStr1))
           IN  IF ~StrContains(sp.firstStr, <<":", ":">>)
               THEN IF Len(fakePrefix) > Len(fakeStart) \/ Len(fakePrefix) > Len(fakeEnd)
                    THEN Panic
                    ELSE BlockJoin(sp.firstStr,
                                   SubSeq(fakeStart, Len(fakePrefix) + 1, Len(fakeStart)),
                                   SubSeq(fakeEnd, Len(fakePrefix) + 1, Len(fakeEnd)))
               ELSE BlockJoin(sp.firstStr, startStr1, endStr1)

\* IPBlock.String(): the text, or Panic
IPBlockString(b) ==
  LET start4 == To4(b.StartIP)
      end4   == To4(b.EndIP)
  IN  IF start4 # Nil /\ end4 # Nil
      THEN IF BytesCompare(b.StartIP, b.EndIP) = 0 THEN IPString(b.StartIP)
           ELSE IF start4[4] # end4[4]
                THEN Itoa(start4[1]) \o <<".">> \o Itoa(start4[2]) \o <<".">>
                       \o Itoa(start4[3]) \o <<".", "[">> \o Itoa(start4[4])
                       \o <<"-">> \o Itoa(end4[4]) \o <<"]">>
           ELSE IF start4[3] # end4[3]
                THEN Itoa(start4[1]) \o <<".">> \o Itoa(start4[2]) \o <<".", "[">>
                       \o Itoa(start4[3]) \o <<"-">> \o Itoa(end4[3]) \o <<"]", ".">>
                       \o Itoa(start4[4])
           ELSE IPString(b.StartIP)
      ELSE IF BytesCompare(b.StartIP, b.EndIP) = 0 THEN IPString(b.StartIP)
           ELSE IPBlockString6(b.StartIP, b.EndIP)

(***************************************************************************)
(* The inputs                                                              *)
(***************************************************************************)

\* The longest address list of an initial state.
MaxLen == 4

V4Universe ==
  { IPv4(10, 0, 0, 0),  IPv4(10, 0, 0, 1),  IPv4(10, 0, 0, 2),  IPv4(10, 0, 0, 3),
    IPv4(10, 0, 0, 5),  IPv4(10, 0, 0, 255), IPv4(10, 0, 1, 0), IPv4(10, 0, 1, 20),
    IPv4(10, 0, 1, 21), IPv4(10, 0, 2, 20), IPv4(10, 0, 3, 20), IPv4(10, 1, 2, 20) }

V6Universe ==
  { IPv6(<<8193, 3512, 0, 0, 0, 0, 0, 1>>),
    IPv6(<<8193, 3512, 0, 0, 0, 0, 0, 2>>),
    IPv6(<<8193, 3512, 0, 0, 0, 0, 0, 3>>),
    IPv6(<<8193, 3512, 0, 0, 0, 0, 0, 5>>),
    IPv6(<<8193, 3512, 0, 0, 1, 0, 0, 0>>),
    IPv6(<<8193, 3512, 0, 0, 65535, 65535, 65535, 65535>>),
    IPv6(<<8193, 3512, 0, 1, 0, 0, 0, 0>>),
    IPv6(<<8193, 3512, 0, 1, 0, 0, 0, 1>>),
    IPv6(<<8193, 3513, 0, 0, 0, 0, 0, 1>>) }

\* What sortIPs returns for the addresses of a set: strictly ascending under
\* bytes.Compare, hence without duplicates.
IsSorted(s) == \A k \in 1..(Len(s) - 1) : BytesCompare(s[k], s[k + 1]) = -1

\* The sorted list of the addresses of a finite set.
RECURSIVE ListOf(_)
ListOf(T) ==
  IF T = {} THEN <<>>
  ELSE LET a == CHOOSE x \in T : \A y \in T : BytesCompare(x, y) # 1
       IN  <<a>> \o ListOf(T \ {a})

SortedLists(U) == { ListOf(T) : T \in { X \in SUBSET U : Cardinality(X) <= MaxLen } }

Inputs == SortedLists(V4Universe) \cup SortedLists(V6Universe)

(***************************************************************************)
(* The plain-text outputs of main: each takes the sorted list, aggregates  *)
(* it and prints one line per aggregate.  aggs keeps the aggregates with   *)
(* the positions each consumed, lines the texts printed when no agent      *)
(* names are asked for (name = false).                                     *)
(***************************************************************************)

Idle == "none"

\* The flags of main, none given.
NoFlags ==
  [i4 |-> FALSE, i6 |-> FALSE, ea |-> FALSE, ca |-> FALSE,
   eaPub |-> FALSE, eaPriv |-> FALSE]

SubnetListStrict == "subnet-strict"

SubnetListLoose == "subnet-loose"

IPRangeListStrict == "range-strict"

IPRangeListLoose == "range-loose"

IPBlockListStrict == "block-strict"

IPBlockListLoose == "block-loose"

\* pad(str, totalLen): blanks appended up to totalLen characters
pad(str, totalLen) ==
  str \o [k \in 1..(IF Len(str) < totalLen THEN totalLen - Len(str) ELSE 0) |-> " "]

\* A line of outputIPBlockListStrict / outputIPBlockListLoose: the text of
\* the block padded to 46 characters, unless String() aborted.
BlockLine(b) ==
  IF IPBlockString(b) = Panic THEN Panic ELSE pad(IPBlockString(b), 46)

Output(m, t, Line(_)) ==
  /\ mode = Idle
  /\ mode' = m
  /\ aggs' = t
  /\ lines' = [k \in 1..Len(t) |-> Line(t[k].agg)]
  /\ UNCHANGED <<ips, recv, arg, ret, found, agents, flags>>

outputSubnetListStrict ==
  Output(SubnetListStrict, SubnetStrictLoop(ips, 1, <<>>), SubnetLine)

outputSubnetListLoose ==
  Output(SubnetListLoose, SubnetLooseLoop(ips, 1, <<>>), SubnetLine)

outputIPRangeListStrict ==
  Output(IPRangeListStrict, RangeStrictScan(ips), IPRangeString)

outputIPRangeListLoose ==
  Output(IPRangeListLoose, RangeLooseScan(ips), IPRangeString)

outputIPBlockListStrict ==
  Output(IPBlockListStrict, BlockStrictScan(ips), BlockLine)

outputIPBlockListLoose ==
  Output(IPBlockListLoose, BlockLooseScan(ips), BlockLine)

Init ==
  /\ ips \in Inputs
  /\ mode = Idle
  /\ aggs = <<>>
  /\ lines = <<>>
  /\ recv = IPBlock(Nil, Nil)
  /\ arg = Nil
  /\ ret = <<>>
  /\ found = FALSE
  /\ agents = <<>>
  /\ flags = NoFlags

Next ==
  \/ outputSubnetListStrict
  \/ outputSubnetListLoose
  \/ outputIPRangeListStrict
  \/ outputIPRangeListLoose
  \/ outputIPBlockListStrict
  \/ outputIPBlockListLoose

Spec == Init /\ [][Next]_vars

\* The strict subnet and range listings alone, for the properties that
\* compare the strict list of a kind with the loose list of that kind.
NextStrict ==
  \/ outputSubnetListStrict
  \/ outputIPRangeListStrict

SpecStrict == Init /\ [][NextStrict]_vars

(***************************************************************************)
(* The same output on the IPv6 lists and on one list longer than the       *)
(* lookahead of ipsToSubnetsLoose: Lookahead6 + 1 addresses of one /64.    *)
(***************************************************************************)

CapRun == [k \in 1..(Lookahead6 + 1) |-> IPv6(<<8193, 3512, 0, 0, 0, 0, 0, k>>)]

\* As many addresses of one /64 as one entry can take, alone and followed
\* by an address of the next /64.
CapFull == SubSeq(CapRun, 1, Lookahead6)

CapNext == Append(CapFull, IPv6(<<8193, 3512, 0, 1, 0, 0, 0, 0>>))

InitCap ==
  /\ ips \in SortedLists(V6Universe) \cup {CapRun, CapFull, CapNext}
  /\ mode = Idle
  /\ aggs = <<>>
  /\ lines = <<>>
  /\ recv = IPBlock(Nil, Nil)
  /\ arg = Nil
  /\ ret = <<>>
  /\ found = FALSE
  /\ agents = <<>>
  /\ flags = NoFlags

NextCap == outputSubnetListLoose

SpecCap == InitCap /\ [][NextCap]_vars

(***************************************************************************)
(* Calls of String and Contains on ranges and blocks that no aggregator    *)
(* need have made: recv is the receiver, arg the address asked for, ret    *)
(* the text returned (or Panic), found the boolean returned.               *)
(***************************************************************************)

Called == "call"

\* Addresses of two /64s, the groups 5..8 with zeros at either end, and
\* addresses that share no leading group with each other.
StringAddrs6 ==
  { IPv6(<<8193, 3512, 0, c>> \o <<g5, g6, g7, g8>>) :
      c \in {0, 1}, g5 \in {0, 43}, g6 \in {0, 43}, g7 \in {0, 1}, g8 \in {0, 2736} }
  \cup { IPv6(<<0, 0, 0, 0, 0, 0, 0, 1>>), IPv6(<<0, 1, 0, 0, 0, 0, 0, 1>>),
         IPv6(<<1, 0, 0, 0, 0, 0, 0, 0>>), IPv6(<<1, 0, 0, 0, 0, 0, 0, 1>>),
         IPv6(<<0, 0, 0, 2, 0, 0, 0, 0>>) }

StringAddrs4 ==
  { IPv4(10, 0, 0, 1), IPv4(10, 0, 0, 255), IPv4(10, 0, 1, 0), IPv4(10, 1, 2, 20) }

\* The well-formed aggregates: one family, Start <= End.
StringAggregates ==
  { IPBlock(a, b) : a, b \in StringAddrs6 } \cup { IPBlock(a, b) : a, b \in StringAddrs4 }

InitString ==
  /\ recv \in { r \in StringAggregates : BytesCompare(r.StartIP, r.EndIP) # 1 }
  /\ arg = Nil
  /\ mode = Called
  /\ ips = <<>>
  /\ aggs = <<>>
  /\ lines = <<>>
  /\ ret = <<>>
  /\ found = FALSE
  /\ agents = <<>>
  /\ flags = NoFlags

CallIPRangeString ==
  /\ mode = Called
  /\ mode' = "IPRange.String"
  /\ ret' = IPRangeString(recv)
  /\ UNCHANGED <<ips, aggs, lines, recv, arg, found, agents, flags>>

CallIPBlockString ==
  /\ mode = Called
  /\ mode' = "IPBlock.String"
  /\ ret' = IPBlockString(recv)
  /\ UNCHANGED <<ips, aggs, lines, recv, arg, found, agents, flags>>

NextString == CallIPRangeString \/ CallIPBlockString

SpecString == InitString /\ [][NextString]_vars

ContainsAddrs ==
  { IPv6(h \o l) : h \in { <<8193, 3512, 0, 0>>, <<8193, 3512, 0, 1>>, <<65282, 0, 0, 0>> },
                   l \in { <<0, 0, 0, 1>>, <<0, 0, 1, 0>>, <<65535, 65535, 65535, 65535>> } }
  \cup { IPv4(10, 0, 0, 1), IPv4(10, 0, 1, 0), IPv4(200, 0, 0, 0) }

InitContains ==
  /\ recv \in { IPRange(a, b) : a, b \in ContainsAddrs }
  /\ arg \in ContainsAddrs
  /\ mode = Called
  /\ ips = <<>>
  /\ aggs = <<>>
  /\ lines = <<>>
  /\ ret = <<>>
  /\ found = FALSE
  /\ agents = <<>>
  /\ flags = NoFlags

CallIPRangeContains ==
  /\ mode = Called
  /\ mode' = "IPRange.Contains"
  /\ found' = IPRangeContains(recv, arg)
  /\ UNCHANGED <<ips, aggs, lines, recv, arg, ret, agents, flags>>

CallIPBlockContains ==
  /\ mode = Called
  /\ mode' = "IPBlock.Contains"
  /\ found' = IPBlockContains(recv, arg)
  /\ UNCHANGED <<ips, aggs, lines, recv, arg, ret, agents, flags>>

NextContains == CallIPRangeContains \/ CallIPBlockContains

SpecContains == InitContains /\ [][NextContains]_vars

(***************************************************************************)
(* Agents.  An agent carries the address texts of the API (IPAddresses,    *)
(* PublicIPAddresses, ClusterMembers) and the parsed lists IPv4Addresses   *)
(* and IPv6Addresses that fetchAgents fills.  agents is the caller's slice *)
(* of agents: a callee that writes through a slice changes it.             *)
(***************************************************************************)

Enterprise == "Enterprise"

EnterpriseCluster == "Enterprise Cluster"

Cloud == "Cloud"

Agent(id, type, ipAddresses, publicIPAddresses, clusterMembers, v4, v6) ==
  [AgentID |-> id, AgentType |-> type, IPAddresses |-> ipAddresses,
   PublicIPAddresses |-> publicIPAddresses, ClusterMembers |-> clusterMembers,
   IPv4Addresses |-> v4, IPv6Addresses |-> v6]

\* IPSlice.Less with the order turned round.
Less_Reversed(a, b) == BytesCompare(a, b) = 1

\* IPSlice.Less
Less(a, b) == BytesCompare(a, b) = -1

\* sort.Stable(IPSlice(ips)): the stable sorted permutation, built by
\* inserting each element behind the elements not greater than it.
RECURSIVE InsertStable(_, _)
InsertStable(s, x) ==
  IF s = <<>> THEN <<x>>
  ELSE IF Less(x, s[Len(s)])
       THEN Append(InsertStable(SubSeq(s, 1, Len(s) - 1), x), s[Len(s)])
       ELSE Append(s, x)

RECURSIVE SortStable(_)
SortStable(s) ==
  IF s = <<>> THEN <<>>
  ELSE InsertStable(SortStable(SubSeq(s, 1, Len(s) - 1)), s[Len(s)])

\* The loop of sortIPs over the sorted slice: an element equal to its
\* successor is dropped.
RECURSIVE Unique(_, _)
Unique(s, i) ==
  IF i > Len(s) THEN <<>>
  ELSE IF Len(s) > i /\ BytesCompare(s[i], s[i + 1]) = 0 THEN Unique(s, i + 1)
  ELSE <<s[i]>> \o Unique(s, i + 1)

\* sortIPs(ips): sorted is the caller's slice as sort.Stable leaves it (the
\* sort is in place), unique the fresh slice returned.
sortIPs(ips_) ==
  [sorted |-> SortStable(ips_), unique |-> Unique(SortStable(ips_), 1)]

\* The IPv4Addresses (f = 4) or IPv6Addresses (f = 6) of all agents, appended
\* in order.
RECURSIVE AllAddresses(_, _)
AllAddresses(agents_, f) ==
  IF agents_ = <<>> THEN <<>>
  ELSE (IF f = 4 THEN agents_[1].IPv4Addresses ELSE agents_[1].IPv6Addresses)
         \o AllAddresses(Tail(agents_), f)

\* sortAgentIPs(agents): both lists are fresh slices, agents is not written.
sortAgentIPs(agents_) ==
  sortIPs(AllAddresses(agents_, 4)).unique \o sortIPs(AllAddresses(agents_, 6)).unique

(***************************************************************************)
(* The lookup of the agents behind an aggregate, called by the listings    *)
(* when agent names are asked for (name = true).                           *)
(***************************************************************************)

SeqHas(s, P(_)) == \E k \in 1..Len(s) : P(s[k])

\* The body of the loop over agents, common to the three lookups: the list
\* looked at follows the family of the aggregate's first address.
AgentMatches(agent, first, P(_)) ==
  IF Len(agent.IPv4Addresses) > 0 /\ To4(first) # Nil
  THEN SeqHas(agent.IPv4Addresses, P)
  ELSE IF Len(agent.IPv6Addresses) > 0 /\ To4(first) = Nil
  THEN SeqHas(agent.IPv6Addresses, P)
  ELSE FALSE

\* getAgentsBySubnet(agents, ipNet)
getAgentsBySubnet(agents_, ipNet) ==
  SelectSeq(agents_, LAMBDA agent :
    AgentMatches(agent, ipNet.IP, LAMBDA aip : IPNetContains(ipNet, aip)))

\* getAgentsByIPRange(agents, ipRange)
getAgentsByIPRange(agents_, ipRange) ==
  SelectSeq(agents_, LAMBDA agent :
    AgentMatches(agent, ipRange.StartIP, LAMBDA aip : IPRangeContains(ipRange, aip)))

\* The second test of getAgentsByIPBlock on an IPv4 address: third octets
\* in order, and aip[3] (a byte of the 16-byte slice, not of aip4) equal to
\* the fourth octet of both ends.
BlockOctetTest(ipBlock, aip) ==
  LET aip4 == To4(aip)
      sip4 == To4(ipBlock.StartIP)
      eip4 == To4(ipBlock.EndIP)
  IN  /\ aip4 # Nil /\ sip4 # Nil /\ eip4 # Nil
      /\ aip4[3] >= sip4[3] /\ aip4[3] <= eip4[3]
      /\ aip[4] = sip4[4] /\ aip[4] = eip4[4]

\* getAgentsByIPBlock(agents, ipBlock)
getAgentsByIPBlock(agents_, ipBlock) ==
  SelectSeq(agents_, LAMBDA agent :
    IF Len(agent.IPv4Addresses) > 0 /\ To4(ipBlock.StartIP) # Nil
    THEN SeqHas(agent.IPv4Addresses,
                LAMBDA aip : IPBlockContains(ipBlock, aip) \/ BlockOctetTest(ipBlock, aip))
    ELSE IF Len(agent.IPv6Addresses) > 0 /\ To4(ipBlock.StartIP) = Nil
    THEN SeqHas(agent.IPv6Addresses, LAMBDA aip : IPBlockContains(ipBlock, aip))
    ELSE FALSE)

\* The most agents of an initial state, and the most addresses of one
\* family an agent has.
MaxAgents == 2

MaxAddrs == 2

LookupV4 == { IPv4(10, 0, 1, 0), IPv4(10, 0, 2, 0), IPv4(11, 0, 2, 77) }

LookupV6 ==
  { IPv6(<<8193, 3512, 0, 0, 0, 0, 0, 1>>), IPv6(<<8193, 3512, 0, 1, 0, 0, 0, 1>>) }

SeqsOf(U, n) == UNION { [1..k -> U] : k \in 0..n }

Distinct(s) == \A i, j \in 1..Len(s) : i # j => s[i] # s[j]

\* Agents as fetchAgents leaves them: the texts cleared, the parsed lists in
\* the order of the API.
LookupAgent(id) ==
  { Agent(id, Enterprise, <<>>, <<>>, <<>>, v4, v6) :
      v4 \in { s \in SeqsOf(LookupV4, MaxAddrs) : Distinct(s) },
      v6 \in { s \in SeqsOf(LookupV6, MaxAddrs - 1) : Distinct(s) } }

LookupAgentLists ==
  UNION { { s \in [1..k -> UNION { LookupAgent(id) : id \in 1..k }] :
              \A i \in 1..k : s[i].AgentID = i } : k \in 1..MaxAgents }

Elems(s) == { s[k] : k \in 1..Len(s) }

InitLookup ==
  /\ agents \in LookupAgentLists
  /\ flags = NoFlags
  /\ mode = Called
  /\ ips = <<>>
  /\ aggs = <<>>
  /\ lines = <<>>
  /\ recv = IPBlock(Nil, Nil)
  /\ arg = Nil
  /\ ret = <<>>
  /\ found = FALSE

\* A lookup as a listing makes it: the aggregate is one of those the
\* aggregator returned for sortAgentIPs(agents).
CallGetAgentsBySubnet ==
  /\ mode = Called
  /\ \E ipNet \in Elems(ipsToSubnetsStrict(sortAgentIPs(agents)))
                    \cup Elems(ipsToSubnetsLoose(sortAgentIPs(agents))) :
       /\ recv' = ipNet
       /\ ret' = getAgentsBySubnet(agents, ipNet)
  /\ mode' = "getAgentsBySubnet"
  /\ UNCHANGED <<ips, aggs, lines, arg, found, agents, flags>>

CallGetAgentsByIPRange ==
  /\ mode = Called
  /\ \E ipRange \in Elems(ipsToIPRangesStrict(sortAgentIPs(agents)))
                      \cup Elems(ipsToIPRangesLoose(sortAgentIPs(agents))) :
       /\ recv' = ipRange
       /\ ret' = getAgentsByIPRange(agents, ipRange)
  /\ mode' = "getAgentsByIPRange"
  /\ UNCHANGED <<ips, aggs, lines, arg, found, agents, flags>>

CallGetAgentsByIPBlock ==
  /\ mode = Called
  /\ \E ipBlock \in Elems(ipsToIPBlocksStrict(sortAgentIPs(agents)))
                      \cup Elems(ipsToIPBlocksLoose(sortAgentIPs(agents))) :
       /\ recv' = ipBlock
       /\ ret' = getAgentsByIPBlock(agents, ipBlock)
  /\ mode' = "getAgentsByIPBlock"
  /\ UNCHANGED <<ips, aggs, lines, arg, found, agents, flags>>

NextLookup ==
  \/ CallGetAgentsBySubnet
  \/ CallGetAgentsByIPRange
  \/ CallGetAgentsByIPBlock

SpecLookup == InitLookup /\ [][NextLookup]_vars

(***************************************************************************)
(* Calls of sortIPs, sortAgentIPs and addDataToAgents on lists in the      *)
(* order of the API, with repeated addresses.  arg keeps what the caller   *)
(* held before the call; ips and agents are the caller's slices after it.  *)
(***************************************************************************)

\* The longest list handed to sortIPs.
MaxSort == 3

SortV4 == { IPv4(10, 0, 0, 1), IPv4(10, 0, 0, 2) }

SortV6 == { IPv6(<<8193, 3512, 0, 0, 0, 0, 0, 1>>) }

SortInputs ==
  SeqsOf(SortV4 \cup {IPv4(9, 255, 0, 7)}, MaxSort)
    \cup SeqsOf(SortV6 \cup {IPv6(<<65152, 0, 0, 0, 0, 0, 0, 1>>)}, MaxSort)

SortAgent(id) ==
  { Agent(id, Cloud, <<>>, <<>>, <<>>, v4, v6) :
      v4 \in SeqsOf(SortV4, MaxAddrs), v6 \in SeqsOf(SortV6, 1) }

\* The agents behind the first: none, one or two IPv4 addresses that the
\* first agent may have as well, out of order.
SortOther(id) ==
  { Agent(id, Cloud, <<>>, <<>>, <<>>, v4, v6) :
      v4 \in { <<>>, <<IPv4(10, 0, 0, 1)>>, <<IPv4(10, 0, 0, 2), IPv4(10, 0, 0, 1)>> },
      v6 \in SeqsOf(SortV6, 1) }

SortAgentLists ==
  UNION { { s \in [1..k -> SortAgent(1) \cup UNION { SortOther(id) : id \in 2..k }] :
              \A i \in 1..k : s[i].AgentID = i } : k \in 1..MaxAgents }

\* The aggregates addDataToAgents stores for the sorted list of one family.
AggregatesOf(sorted) ==
  [SubnetsStrict |-> ipsToSubnetsStrict(sorted),
   SubnetsLoose  |-> ipsToSubnetsLoose(sorted),
   RangesStrict  |-> ipsToIPRangesStrict(sorted),
   RangesLoose   |-> ipsToIPRangesLoose(sorted),
   BlocksStrict  |-> ipsToIPBlocksStrict(sorted),
   BlocksLoose   |-> ipsToIPBlocksLoose(sorted)]

\* addDataToAgents, one turn of the loop: sortIPs sorts agent.IPv4Addresses
\* and agent.IPv6Addresses in place, and these share their elements with
\* agents[i]; a family without addresses gets no aggregates.
AddData(agent) ==
  LET s4 == sortIPs(agent.IPv4Addresses)
      s6 == sortIPs(agent.IPv6Addresses)
  IN  [agent EXCEPT !.IPv4Addresses = s4.sorted, !.IPv6Addresses = s6.sorted]
        @@ [IPv4 |-> IF Len(agent.IPv4Addresses) > 0 THEN AggregatesOf(s4.unique) ELSE <<>>,
            IPv6 |-> IF Len(agent.IPv6Addresses) > 0 THEN AggregatesOf(s6.unique) ELSE <<>>]

\* addDataToAgents(agents)
addDataToAgents(agents_) == [i \in 1..Len(agents_) |-> AddData(agents_[i])]

InitSort ==
  /\ \/ ips \in SortInputs /\ agents = <<>>
     \/ ips = <<>> /\ agents \in SortAgentLists
  /\ flags = NoFlags
  /\ mode = Called
  /\ aggs = <<>>
  /\ lines = <<>>
  /\ recv = IPBlock(Nil, Nil)
  /\ arg = Nil
  /\ ret = <<>>
  /\ found = FALSE

CallSortIPs ==
  /\ mode = Called
  /\ mode' = "sortIPs"
  /\ arg' = ips
  /\ ips' = sortIPs(ips).sorted
  /\ ret' = sortIPs(ips).unique
  /\ UNCHANGED <<aggs, lines, recv, found, agents, flags>>

CallSortAgentIPs ==
  /\ mode = Called
  /\ mode' = "sortAgentIPs"
  /\ arg' = agents
  /\ ret' = sortAgentIPs(agents)
  /\ UNCHANGED <<ips, aggs, lines, recv, found, agents, flags>>

CallAddDataToAgents ==
  /\ mode = Called
  /\ mode' = "addDataToAgents"
  /\ arg' = agents
  /\ agents' = addDataToAgents(agents)
  /\ ret' = addDataToAgents(agents)
  /\ UNCHANGED <<ips, aggs, lines, recv, found, flags>>

NextSort == CallSortIPs \/ CallSortAgentIPs \/ CallAddDataToAgents

SpecSort == InitSort /\ [][NextSort]_vars

(***************************************************************************)
(* main's flags and fetchAgents, from the decoded answer of the API (arg)  *)
(* to the agents with their parsed address lists.                          *)
(***************************************************************************)

\* main: ipv4, ipv6, enterprise, cloud, enterprisePublic, enterprisePrivate
\* from the flags.
Resolve(f) ==
  [ipv4 |-> ~(~f.i4 /\ f.i6),
   ipv6 |-> ~(f.i4 /\ ~f.i6),
   enterprise |-> ~(~f.ea /\ ~f.eaPub /\ ~f.eaPriv /\ f.ca),
   cloud |-> ~((f.ea \/ f.eaPub \/ f.eaPriv) /\ ~f.ca),
   enterprisePublic |->
     IF f.ea \/ (f.eaPub /\ f.eaPriv) \/ (~f.ea /\ ~f.eaPub /\ ~f.eaPriv /\ ~f.ca)
     THEN TRUE ELSE f.eaPub,
   enterprisePrivate |->
     IF f.ea \/ (f.eaPub /\ f.eaPriv) \/ (~f.ea /\ ~f.eaPub /\ ~f.eaPriv /\ ~f.ca)
     THEN TRUE ELSE (~f.eaPub /\ f.eaPriv)]

\* fetchAgents, the first loop: the agents of the kinds asked for.
KeepKind(agent, o) ==
  \/ o.enterprise /\ agent.AgentType \in {Enterprise, EnterpriseCluster}
  \/ o.cloud /\ agent.AgentType = Cloud

\* The body repeated for every address text: the text goes to the IPv6 list
\* if it holds ":", else to the IPv4 list if it holds "."; what is appended
\* is the result of net.ParseIP, nil included.
AddText(agent, ip, o) ==
  IF o.ipv6 /\ StrContains(ip, <<":">>)
  THEN [agent EXCEPT !.IPv6Addresses = Append(@, ParseIP(ip))]
  ELSE IF o.ipv4 /\ StrContains(ip, <<".">>)
  THEN [agent EXCEPT !.IPv4Addresses = Append(@, ParseIP(ip))]
  ELSE agent

RECURSIVE AddTexts(_, _, _)
AddTexts(agent, texts, o) ==
  IF texts = <<>> THEN agent
  ELSE AddTexts(AddText(agent, texts[1], o), Tail(texts), o)

\* for _, clusterMember := range agent.ClusterMembers: the private (public
\* = FALSE) or public texts of every member.
RECURSIVE AddMembers(_, _, _, _)
AddMembers(agent, members, public, o) ==
  IF members = <<>> THEN agent
  ELSE AddMembers(AddTexts(agent,
                           IF public THEN members[1].PublicIPAddresses
                           ELSE members[1].IPAddresses, o),
                  Tail(members), public, o)

\* fetchAgents, the second loop, for one agent: the four blocks in order,
\* then the texts are cleared.
FillAgent(agent, o) ==
  LET a1 == IF (agent.AgentType = Cloud \/ (agent.AgentType = Enterprise /\ o.enterprisePrivate))
               /\ Len(agent.IPAddresses) > 0
            THEN AddTexts(agent, agent.IPAddresses, o) ELSE agent
      a2 == IF o.enterprisePublic /\ Len(agent.PublicIPAddresses) > 0
            THEN AddMembers(AddTexts(a1, agent.PublicIPAddresses, o),
                            agent.ClusterMembers, TRUE, o)
            ELSE a1
      a3 == IF o.enterprisePrivate /\ agent.AgentType = EnterpriseCluster
               /\ Len(agent.ClusterMembers) > 0
            THEN AddMembers(a2, agent.ClusterMembers, FALSE, o) ELSE a2
      a4 == IF o.enterprisePublic /\ agent.AgentType = EnterpriseCluster
               /\ Len(agent.ClusterMembers) > 0
            THEN AddMembers(a3, agent.ClusterMembers, TRUE, o) ELSE a3
  IN  [a4 EXCEPT !.IPAddresses = <<>>, !.PublicIPAddresses = <<>>, !.ClusterMembers = <<>>]

\* fetchAgents, the last loop: the agents with an address list of a family
\* asked for.
KeepFamily(agent, o) ==
  \/ o.ipv4 /\ Len(agent.IPv4Addresses) > 0
  \/ o.ipv6 /\ Len(agent.IPv6Addresses) > 0

\* fetchAgents(user, token, enterprise, cloud, ipv4, ipv6, enterprisePublic,
\* enterprisePrivate), from the decoded agents on.
fetchAgents(decoded, o) ==
  LET kinds  == IF ~o.enterprise \/ ~o.cloud
                THEN SelectSeq(decoded, LAMBDA a : KeepKind(a, o)) ELSE decoded
      filled == [i \in 1..Len(kinds) |-> FillAgent(kinds[i], o)]
  IN  IF ~o.ipv4 \/ ~o.ipv6
      THEN SelectSeq(filled, LAMBDA a : KeepFamily(a, o)) ELSE filled

\* The address texts of the API, each in one field only.
CloudText4 == IPString(IPv4(8, 8, 8, 8))

CloudText6 == IPString(IPv6(<<8193, 3512, 0, 0, 0, 0, 0, 8>>))

PrivateText4 == IPString(IPv4(10, 0, 0, 1))

PrivateText6 == IPString(IPv6(<<64768, 0, 0, 0, 0, 0, 0, 1>>))

PublicText4 == IPString(IPv4(1, 1, 1, 1))

PublicText6 == IPString(IPv6(<<8193, 3512, 0, 0, 0, 0, 0, 1>>))

MemberPrivateText4 == IPString(IPv4(10, 0, 0, 2))

MemberPrivateText6 == IPString(IPv6(<<64768, 0, 0, 0, 0, 0, 0, 2>>))

MemberPublicText4 == IPString(IPv4(1, 1, 1, 2))

\* Texts that net.ParseIP rejects: three fields, a field above 255.
BadTexts == { <<"1", "0", ".", "0", ".", "0">>,
              <<"1", "0", ".", "0", ".", "0", ".", "2", "5", "6">> }

Member(ipAddresses, publicIPAddresses) ==
  Agent(0, "", ipAddresses, publicIPAddresses, <<>>, <<>>, <<>>)

DecodedAgent(id) ==
  { Agent(id, Cloud, t, <<>>, <<>>, <<>>, <<>>) :
      t \in { <<CloudText4>>, <<CloudText6>> } \cup { <<b>> : b \in BadTexts } }
  \cup { Agent(id, Enterprise, t, u, <<>>, <<>>, <<>>) :
           t \in { <<>>, <<PrivateText4, PrivateText6>> } \cup { <<b>> : b \in BadTexts },
           u \in { <<>>, <<PublicText4, PublicText6>> } }
  \cup { Agent(id, EnterpriseCluster, <<>>, <<>>,
               << Member(<<MemberPrivateText4>>, <<MemberPublicText4>>),
                  Member(<<MemberPrivateText6>>, <<>>) >>, <<>>, <<>>),
         Agent(id, EnterpriseCluster, <<>>, <<PublicText4>>,
               << Member(<<MemberPrivateText4>>, <<MemberPublicText4>>) >>, <<>>, <<>>) }

DecodedLists ==
  UNION { { s \in [1..k -> UNION { DecodedAgent(id) : id \in 1..k }] :
              \A i \in 1..k : s[i].AgentID = i } : k \in 1..MaxAgents }

InitFetch ==
  /\ arg \in DecodedLists
  /\ flags \in [i4 : BOOLEAN, i6 : BOOLEAN, ea : BOOLEAN, ca : BOOLEAN,
                eaPub : BOOLEAN, eaPriv : BOOLEAN]
  /\ agents = <<>>
  /\ mode = Idle
  /\ ips = <<>>
  /\ aggs = <<>>
  /\ lines = <<>>
  /\ recv = IPBlock(Nil, Nil)
  /\ ret = <<>>
  /\ found = FALSE

CallFetchAgents ==
  /\ mode = Idle
  /\ mode' = "fetchAgents"
  /\ agents' = fetchAgents(arg, Resolve(flags))
  /\ UNCHANGED <<ips, aggs, lines, recv, arg, ret, found, flags>>

NextFetch == CallFetchAgents

SpecFetch == InitFetch /\ [][NextFetch]_vars

(***************************************************************************)
(* The listings on the list main builds: sortAgentIPs(agents), the sorted  *)
(* IPv4 addresses followed by the sorted IPv6 addresses.  The first agent  *)
(* holds the IPv6 addresses and the second the IPv4 addresses; two of the  *)
(* IPv6 addresses end in the four bytes of 10.0.0.2 and 10.0.0.3.          *)
(***************************************************************************)

CombinedV4 == { IPv4(10, 0, 0, 0), IPv4(10, 0, 0, 1), IPv4(10, 0, 1, 1) }

CombinedV6 ==
  { IPv6(<<8193, 3512, 0, 0, 0, 0, 2560, 2>>),
    IPv6(<<8193, 3512, 0, 0, 0, 0, 2560, 3>>),
    IPv6(<<8193, 3512, 0, 1, 0, 0, 0, 0>>) }

CombinedAgents ==
  { << Agent(1, Cloud, <<>>, <<>>, <<>>, <<>>, ListOf(T6)),
       Agent(2, Cloud, <<>>, <<>>, <<>>, ListOf(T4), <<>>) >> :
      T4 \in SUBSET CombinedV4, T6 \in SUBSET CombinedV6 }

InitCombined ==
  /\ agents \in CombinedAgents
  /\ ips = sortAgentIPs(agents)
  /\ mode = Idle
  /\ aggs = <<>>
  /\ lines = <<>>
  /\ recv = IPBlock(Nil, Nil)
  /\ arg = Nil
  /\ ret = <<>>
  /\ found = FALSE
  /\ flags = NoFlags

SpecCombined == InitCombined /\ [][Next]_vars

(***************************************************************************)
(* Properties                                                              *)
(***************************************************************************)

OutputModes == {SubnetListStrict, SubnetListLoose, IPRangeListStrict,
                IPRangeListLoose, IPBlockListStrict, IPBlockListLoose}

SubnetModes == {SubnetListStrict, SubnetListLoose}

\* The address without the IPv4-in-IPv6 prefix: 4 bytes or 16.
Norm(a) == IF To4(a) # Nil THEN To4(a) ELSE a

IsV4(a) == To4(a) # Nil

\* Bit i (0 the most significant) of a byte sequence.
BitOf(x, i) == (x[(i \div 8) + 1] \div Pow2(7 - (i % 8))) % 2

\* Prefix match: a has the family of the subnet and agrees with its base
\* address on the first prefix-length bits.
InSubnet(n, a) ==
  /\ Len(Norm(a)) = Len(Norm(n.IP))
  /\ \A i \in 0..(MaskOnes(n.Mask) - 1) : BitOf(Norm(a), i) = BitOf(Norm(n.IP), i)

\* Start <= a <= End as unsigned big-endian numbers of one family.
InInterval(r, a) ==
  /\ Len(Norm(a)) = Len(Norm(r.StartIP))
  /\ Len(Norm(a)) = Len(Norm(r.EndIP))
  /\ BytesCompare(Norm(r.StartIP), Norm(a)) # 1
  /\ BytesCompare(Norm(a), Norm(r.EndIP)) # 1

Holds(m, agg, a) == IF m \in SubnetModes THEN InSubnet(agg, a) ELSE InInterval(agg, a)

\* Two aggregates of one list share an address.
Overlap(m, x, y) ==
  IF m \in SubnetModes
  THEN /\ Len(Norm(x.IP)) = Len(Norm(y.IP))
       /\ \A i \in 0..(Min2(MaskOnes(x.Mask), MaskOnes(y.Mask)) - 1) :
            BitOf(Norm(x.IP), i) = BitOf(Norm(y.IP), i)
  ELSE /\ BytesCompare(Norm(x.StartIP), Norm(y.EndIP)) # 1
       /\ BytesCompare(Norm(y.StartIP), Norm(x.EndIP)) # 1

StartOf(m, x) == IF m \in SubnetModes THEN Norm(x.IP) ELSE Norm(x.StartIP)

\* C1: after any of the six aggregations of a sorted, duplicate-free list of
\* one family, every address of the list lies in exactly one aggregate of
\* the result (prefix match for a subnet, Start <= a <= End for a range or
\* a block).
C1_Coverage ==
  mode \in OutputModes =>
    \A p \in 1..Len(ips) :
      Cardinality({k \in 1..Len(aggs) : Holds(mode, aggs[k].agg, ips[p])}) = 1

\* C3: the aggregates of one result are pairwise disjoint as address sets
\* and strictly ascending by their start address.
C3_NonOverlapOrder ==
  mode \in OutputModes =>
    \A j, k \in 1..Len(aggs) :
      j < k => /\ ~Overlap(mode, aggs[j].agg, aggs[k].agg)
               /\ BytesCompare(StartOf(mode, aggs[j].agg), StartOf(mode, aggs[k].agg)) = -1

\* The value of a numeral, 65536 standing for any value from 65536 on.
NumSat(u) ==
  IF \E k \in 1..(Len(u) - 2) : u[k] # 0 THEN 65536
  ELSE u[Len(u) - 1] * 256 + u[Len(u)]

\* The number of addresses of an aggregate's address space (up to 65536).
SizeOf(m, x) ==
  IF m \in SubnetModes
  THEN IF MaskBits(x.Mask) - MaskOnes(x.Mask) >= 16 THEN 65536
       ELSE Pow2(MaskBits(x.Mask) - MaskOnes(x.Mask))
  ELSE IF BytesCompare(Norm(x.StartIP), Norm(x.EndIP)) = 1 THEN 0
  ELSE Min2(65536, NumSat(USub(Norm(x.EndIP), Norm(x.StartIP))) + 1)

RECURSIVE SumSizes(_, _)
SumSizes(m, t) ==
  IF Len(t) = 0 THEN 0
  ELSE Min2(65536, SizeOf(m, t[1].agg) + SumSizes(m, Tail(t)))

UniverseOf(s) == IF Len(s) > 0 /\ IsV4(s[1]) THEN V4Universe ELSE V6Universe

Members(s) == {s[p] : p \in 1..Len(s)}

\* C2: the address spaces of the subnets of ipsToSubnetsStrict, and the
\* intervals of ipsToIPRangesStrict, together hold the input addresses and
\* nothing else: every input address is in one of them, they hold as many
\* addresses as the input has, and no other address of the universe the
\* input was drawn from is in any of them.
C2_StrictExact ==
  mode \in {SubnetListStrict, IPRangeListStrict} =>
    /\ \A p \in 1..Len(ips) : \E k \in 1..Len(aggs) : Holds(mode, aggs[k].agg, ips[p])
    /\ SumSizes(mode, aggs) = Len(ips)
    /\ \A a \in UniverseOf(ips) \ Members(ips) :
         \A k \in 1..Len(aggs) : ~Holds(mode, aggs[k].agg, a)

\* C2 witness: a strict subnet list of several subnets, one of them wider
\* than a single address.
C2_Witness ==
  /\ mode = SubnetListStrict
  /\ Len(aggs) >= 2
  /\ \E k \in 1..Len(aggs) : MaskOnes(aggs[k].agg.Mask) < 32

\* A printed line without the blanks pad appended.
RECURSIVE Trim(_)
Trim(t) ==
  IF Len(t) > 0 /\ t[Len(t)] = " " THEN Trim(SubSeq(t, 1, Len(t) - 1)) ELSE t

\* The place of the first c in s, 0 when there is none.
IndexOf(s, c) ==
  IF \E k \in 1..Len(s) : s[k] = c
  THEN CHOOSE k \in 1..Len(s) : s[k] = c /\ \A j \in 1..(k - 1) : s[j] # c
  ELSE 0

\* The fields of a text between its dots.
RECURSIVE SplitDots(_)
SplitDots(s) ==
  LET d == IndexOf(s, ".")
  IN  IF d = 0 THEN <<s>>
      ELSE <<SubSeq(s, 1, d - 1)>> \o SplitDots(SubSeq(s, d + 1, Len(s)))

IsDec(s) == Len(s) > 0 /\ \A k \in 1..Len(s) : \E v \in 1..10 : Digits[v] = s[k]

RECURSIVE DecVal(_, _)
DecVal(s, acc) ==
  IF Len(s) = 0 THEN acc ELSE DecVal(Tail(s), Min2(65536, acc * 10 + HexValue(s[1])))

\* The values a field of a block text stands for: n for "n", x..y for "[x-y]".
FieldValues(f) ==
  IF IsDec(f) THEN {DecVal(f, 0)}
  ELSE IF Len(f) >= 5 /\ f[1] = "[" /\ f[Len(f)] = "]"
       THEN LET inner == SubSeq(f, 2, Len(f) - 1)
                d     == IndexOf(inner, "-")
                x     == SubSeq(inner, 1, d - 1)
                y     == SubSeq(inner, d + 1, Len(inner))
            IN  IF d # 0 /\ IsDec(x) /\ IsDec(y) THEN DecVal(x, 0)..DecVal(y, 0) ELSE {}
  ELSE {}

\* The IPv4 addresses (as 4 bytes) a line of a block list denotes: itself
\* for a bare address, A.B.C.d with x <= d <= y for A.B.C.[x-y], A.B.c.D
\* with x <= c <= y for A.B.[x-y].D.
Denoted4(line) ==
  LET f == SplitDots(line)
  IN  IF Len(f) # 4 THEN {}
      ELSE { <<a, b, c, d>> : a \in FieldValues(f[1]), b \in FieldValues(f[2]),
                              c \in FieldValues(f[3]), d \in FieldValues(f[4]) }

V4Input == Len(ips) > 0 /\ IsV4(ips[1])

\* C4: the lines of the block-strict output of a sorted IPv4 list denote the
\* input addresses and no others.
C4_BlockStrictExact ==
  (mode = IPBlockListStrict /\ V4Input) =>
    UNION { Denoted4(Trim(lines[k])) : k \in 1..Len(lines) } = { To4(ips[p]) : p \in 1..Len(ips) }

\* C5: every address of a sorted IPv4 list is denoted by the line of the
\* loose block that consumed it.
C5_BlockLooseCovers ==
  (mode = IPBlockListLoose /\ V4Input) =>
    \A k \in 1..Len(aggs) : \A p \in (aggs[k].first)..(aggs[k].last) :
      To4(ips[p]) \in Denoted4(Trim(lines[k]))

\* C7: every IPv4 block with Start # End that ipsToIPBlocksStrict or
\* ipsToIPBlocksLoose returns has Start and End equal in the first two
\* octets and different in exactly one of the third and the fourth, Start's
\* octet there being the smaller.
C7_OneVaryingOctet ==
  (mode \in {IPBlockListStrict, IPBlockListLoose} /\ V4Input) =>
    \A k \in 1..Len(aggs) :
      LET s4 == To4(aggs[k].agg.StartIP)
          e4 == To4(aggs[k].agg.EndIP)
      IN  s4 # e4 =>
            /\ s4[1] = e4[1] /\ s4[2] = e4[2]
            /\ \/ s4[3] = e4[3] /\ s4[4] < e4[4]
               \/ s4[4] = e4[4] /\ s4[3] < e4[3]

\* A text without "/", " ", "[" and "]": no prefix length, no " - ", no
\* bracket.
Plain(t) == \A k \in 1..Len(t) : t[k] \notin {"/", " ", "[", "]"}

\* C6 as stated: each of the six outputs of a one-address list is one line,
\* the plain text of the address (a line is read without the blanks that
\* pad appends to it in the block lists).
C6_SingletonRoundTrip ==
  (mode \in OutputModes /\ Len(ips) = 1) =>
    /\ Len(lines) = 1
    /\ Trim(lines[1]) = IPString(ips[1])
    /\ Plain(Trim(lines[1]))

\* C6, amended: each of the six outputs of a one-address list is one line;
\* it is the plain text of the address, except that the loose subnet list
\* of an IPv6 address shows the /64 of the address, "<address masked to 64
\* bits>/64".
C6_SingletonAmended ==
  (mode \in OutputModes /\ Len(ips) = 1) =>
    /\ Len(lines) = 1
    /\ IF mode = SubnetListLoose /\ ~IsV4(ips[1])
       THEN lines[1] = IPString(IPv6([k \in 1..8 |-> IF k <= 4 THEN Groups(ips[1])[k] ELSE 0]))
                         \o <<"/", "6", "4">>
       ELSE Trim(lines[1]) = IPString(ips[1]) /\ Plain(Trim(lines[1]))

\* C6 witness: the loose subnet list of one IPv6 address has been printed.
C6_Witness ==
  /\ mode = SubnetListLoose
  /\ Len(ips) = 1
  /\ ~IsV4(ips[1])
  /\ Len(lines) = 1

\* The number of leading 16-bit groups in which two IPv6 addresses agree.
SharedGroups(a, b) ==
  CHOOSE k \in 0..8 :
    /\ \A j \in 1..k : Groups(a)[j] = Groups(b)[j]
    /\ k < 8 => Groups(a)[k + 1] # Groups(b)[k + 1]

\* The first k groups of an address in hex, joined by ":".
RECURSIVE JoinGroups(_, _)
JoinGroups(g, k) ==
  IF k = 0 THEN <<>>
  ELSE IF k = 1 THEN Hex(g[1])
  ELSE JoinGroups(g, k - 1) \o <<":">> \o Hex(g[k])

\* The call C8 is about: IPBlock.String has returned for an IPv6 block with
\* Start # End whose Start and End share the upper 64 bits.
C8_Case ==
  /\ mode = "IPBlock.String"
  /\ ~IsV4(recv.StartIP) /\ ~IsV4(recv.EndIP)
  /\ recv.StartIP # recv.EndIP
  /\ Slice(recv.StartIP, 0, 8) = Slice(recv.EndIP, 0, 8)

\* C8: the text of such a block is P[s-e]; P is the shared leading groups
\* of Start and End, each in hex and none compressed away, followed only
\* by colons; P with s parses to Start and P with e parses to End.
C8_V6BlockRoundTrip ==
  C8_Case =>
    /\ ret # Panic
    /\ LET lb   == IndexOf(ret, "[")
           dash == IndexOf(ret, "-")
           P    == SubSeq(ret, 1, lb - 1)
           st   == SubSeq(ret, lb + 1, dash - 1)
           en   == SubSeq(ret, dash + 1, Len(ret) - 1)
           J    == JoinGroups(Groups(recv.StartIP), SharedGroups(recv.StartIP, recv.EndIP))
       IN  /\ lb > 0 /\ dash > lb /\ ret[Len(ret)] = "]"
           /\ Len(P) >= Len(J)
           /\ SubSeq(P, 1, Len(J)) = J
           /\ \A i \in (Len(J) + 1)..Len(P) : P[i] = ":"
           /\ ParseIP(P \o st) = recv.StartIP
           /\ ParseIP(P \o en) = recv.EndIP

\* C8 witness: such a text whose bracket opens with a compressed zero run,
\* next to the shared prefix.
C8_Witness ==
  /\ C8_Case
  /\ ret # Panic
  /\ IndexOf(ret, "[") > 0
  /\ SubSeq(ret, IndexOf(ret, "[") + 1, IndexOf(ret, "[") + 2) = <<":", ":">>

\* C9: String() of a range or block of one family with Start <= End returns
\* a text; it never aborts.
C9_RenderNeverFails ==
  mode \in {"IPRange.String", "IPBlock.String"} => ret # Panic

\* C10: IPRange.Contains(ip) and IPBlock.Contains(ip) return true exactly
\* when ip, Start and End are of one family and Start <= ip <= End as whole
\* unsigned big-endian addresses.
C10_ContainsIsInterval ==
  mode \in {"IPRange.Contains", "IPBlock.Contains"} =>
    (found <=> /\ IsV4(arg) = IsV4(recv.StartIP)
               /\ IsV4(arg) = IsV4(recv.EndIP)
               /\ BytesCompare(Norm(recv.StartIP), Norm(arg)) # 1
               /\ BytesCompare(Norm(arg), Norm(recv.EndIP)) # 1)

\* C10 witness: Contains has returned true for an IPv6 address in the /64
\* of Start that is not the /64 of End.
C10_Witness ==
  /\ mode \in {"IPRange.Contains", "IPBlock.Contains"}
  /\ found
  /\ ~IsV4(arg)
  /\ Slice(arg, 0, 8) = Slice(recv.StartIP, 0, 8)
  /\ Slice(arg, 0, 8) # Slice(recv.EndIP, 0, 8)

LookupModes == {"getAgentsBySubnet", "getAgentsByIPRange", "getAgentsByIPBlock"}

\* An agent has an address inside the aggregate: prefix match for a subnet,
\* Start <= a <= End for a range or block.
HasInside(agent, agg) ==
  \E a \in Elems(agent.IPv4Addresses) \cup Elems(agent.IPv6Addresses) :
    IF mode = "getAgentsBySubnet" THEN InSubnet(agg, a) ELSE InInterval(agg, a)

\* C11: a lookup returns, in input order and each once, exactly the agents
\* that have an address inside the aggregate.
C11_LookupIsFilter ==
  mode \in LookupModes =>
    ret = SelectSeq(agents, LAMBDA agent : HasInside(agent, recv))

\* C12: sortIPs returns a strictly ascending list with the values of its
\* input; sortAgentIPs returns the distinct IPv4 addresses of all agents in
\* ascending order, then the distinct IPv6 addresses in ascending order.
C12_Canonical ==
  /\ mode = "sortIPs" => IsSorted(ret) /\ Elems(ret) = Elems(arg)
  /\ mode = "sortAgentIPs" =>
       ret = ListOf(UNION { Elems(arg[i].IPv4Addresses) : i \in 1..Len(arg) })
               \o ListOf(UNION { Elems(arg[i].IPv6Addresses) : i \in 1..Len(arg) })

\* C12 witness: sortIPs has returned for a list that was out of order and
\* held an address twice.
C12_Witness ==
  /\ mode = "sortIPs"
  /\ Len(ret) >= 2
  /\ Len(ret) < Len(arg)
  /\ \E k \in 1..(Len(arg) - 1) : BytesCompare(arg[k], arg[k + 1]) = 1

\* C15: sortIPs and addDataToAgents leave the caller's address lists as
\* they were, element by element.
C15_InputsUnchanged ==
  /\ mode = "sortIPs" => ips = arg
  /\ mode = "addDataToAgents" =>
       \A i \in 1..Len(arg) :
         /\ agents[i].IPv4Addresses = arg[i].IPv4Addresses
         /\ agents[i].IPv6Addresses = arg[i].IPv6Addresses

\* Every address text of the decoded agents and their cluster members.
TextsOf(decoded) ==
  UNION { Elems(decoded[i].IPAddresses) \cup Elems(decoded[i].PublicIPAddresses)
            \cup UNION { Elems(decoded[i].ClusterMembers[j].IPAddresses)
                           \cup Elems(decoded[i].ClusterMembers[j].PublicIPAddresses) :
                         j \in 1..Len(decoded[i].ClusterMembers) } :
          i \in 1..Len(decoded) }

\* Every element of the address lists of the agents returned.
Listed == UNION { Elems(agents[i].IPv4Addresses) \cup Elems(agents[i].IPv6Addresses) :
                  i \in 1..Len(agents) }

\* C13: a text that does not parse adds no element, and so no nil address,
\* to the address lists fetchAgents returns.
C13_NoUnparsedEntry ==
  mode = "fetchAgents" => Nil \notin Listed

\* The texts of the ipAddresses fields of the Enterprise agents, of the
\* Enterprise Clusters and of their members.
EnterprisePrivateTexts(decoded) ==
  UNION { Elems(decoded[i].IPAddresses)
            \cup UNION { Elems(decoded[i].ClusterMembers[j].IPAddresses) :
                         j \in 1..Len(decoded[i].ClusterMembers) } :
          i \in { k \in 1..Len(decoded) :
                    decoded[k].AgentType \in {Enterprise, EnterpriseCluster} } }

\* The texts of the publicIpAddresses fields of the agents and the members.
PublicTexts(decoded) ==
  UNION { Elems(decoded[i].PublicIPAddresses)
            \cup UNION { Elems(decoded[i].ClusterMembers[j].PublicIPAddresses) :
                         j \in 1..Len(decoded[i].ClusterMembers) } :
          i \in 1..Len(decoded) }

\* C17: with -e-public and without -e-private no address of an ipAddresses
\* field of an Enterprise agent, cluster or member is in an address list of
\* the agents returned, whatever -e and -c are; with -e-private and without
\* -e-public none of a publicIpAddresses field is.
C17_PublicPrivateOnly ==
  mode = "fetchAgents" =>
    /\ (flags.eaPub /\ ~flags.eaPriv) =>
         \A t \in EnterprisePrivateTexts(arg) : ParseIP(t) # Nil => ParseIP(t) \notin Listed
    /\ (flags.eaPriv /\ ~flags.eaPub) =>
         \A t \in PublicTexts(arg) : ParseIP(t) # Nil => ParseIP(t) \notin Listed

\* The ids of a list of agents.
Ids(s) == { s[i].AgentID : i \in 1..Len(s) }

\* The lists of texts of the decoded agents, field by field.
TextLists(decoded) ==
  UNION { { decoded[i].IPAddresses, decoded[i].PublicIPAddresses }
            \cup UNION { { decoded[i].ClusterMembers[j].IPAddresses,
                           decoded[i].ClusterMembers[j].PublicIPAddresses } :
                         j \in 1..Len(decoded[i].ClusterMembers) } :
          i \in 1..Len(decoded) }

\* C18: with exactly one of -4 and -6 every agent returned has an address
\* of that family and none of the other; with both or neither no agent is
\* left out for its addresses (an agent is left out only with all agents of
\* its kind) and the texts of one field are listed whatever their family.
C18_FamilyFilter ==
  mode = "fetchAgents" =>
    /\ (flags.i4 /\ ~flags.i6) =>
         \A i \in 1..Len(agents) :
           /\ \E a \in Elems(agents[i].IPv4Addresses) : a # Nil /\ IsV4(a)
           /\ \A a \in Elems(agents[i].IPv4Addresses) \cup Elems(agents[i].IPv6Addresses) :
                a # Nil => IsV4(a)
    /\ (flags.i6 /\ ~flags.i4) =>
         \A i \in 1..Len(agents) :
           /\ \E a \in Elems(agents[i].IPv6Addresses) : a # Nil /\ ~IsV4(a)
           /\ \A a \in Elems(agents[i].IPv4Addresses) \cup Elems(agents[i].IPv6Addresses) :
                a # Nil => ~IsV4(a)
    /\ (flags.i4 = flags.i6) =>
         /\ \A i, j \in 1..Len(arg) :
              (arg[i].AgentType = arg[j].AgentType /\ arg[i].AgentID \notin Ids(agents))
                => arg[j].AgentID \notin Ids(agents)
         /\ \A L \in TextLists(arg) : \A t, u \in Elems(L) :
              (ParseIP(t) # Nil /\ ParseIP(u) # Nil)
                => (ParseIP(t) \in Listed <=> ParseIP(u) \in Listed)

\* C14: each of the six aggregators returns no aggregate for the empty
\* list and one for a list of one address, and its scan consumes the
\* positions 1..Len(ips) in order, each once: the first aggregate starts at
\* position 1, each next one behind the last position of the one before,
\* the last one ends at Len(ips), and the numbers consumed sum to Len(ips).
C14_Totality ==
  mode \in OutputModes =>
    /\ Len(ips) = 0 => aggs = <<>>
    /\ Len(ips) = 1 => Len(aggs) = 1
    /\ \A k \in 1..Len(aggs) :
         /\ aggs[k].first = (IF k = 1 THEN 1 ELSE aggs[k - 1].last + 1)
         /\ aggs[k].first <= aggs[k].last
    /\ Len(ips) > 0 => Len(aggs) > 0 /\ aggs[Len(aggs)].last = Len(ips)
    /\ \A p \in 1..Len(ips) :
         Cardinality({ k \in 1..Len(aggs) : aggs[k].first <= p /\ p <= aggs[k].last }) = 1

\* C14 witness: a scan of four addresses that emitted an aggregate of
\* several positions and then another aggregate.
C14_Witness ==
  /\ mode \in OutputModes
  /\ Len(ips) = 4
  /\ Len(aggs) >= 2
  /\ aggs[1].last > aggs[1].first

InPrefix(s, a, l) ==
  Cardinality({ k \in 1..Len(s) :
                  \A i \in 0..(l - 1) : BitOf(Norm(s[k]), i) = BitOf(Norm(a), i) })

\* The subnet is the address a cut to prefix length l: the first l bits of
\* a, zeros behind them, a mask of l ones in 32 bits.
IsCut(n, a, l) ==
  /\ MaskOnes(n.Mask) = l /\ MaskBits(n.Mask) = 32
  /\ Len(Norm(n.IP)) = 4
  /\ \A i \in 0..31 : BitOf(Norm(n.IP), i) = (IF i < l THEN BitOf(Norm(a), i) ELSE 0)

\* C19: on an IPv4 list every strict subnet is the address at its first
\* position cut to the smallest L in 24..32 for which all 2^(32-L)
\* addresses of that subnet are in the list, and it consumes 2^(32-L)
\* positions.
C19_StrictWidestFirst ==
  (mode = SubnetListStrict /\ \A k \in 1..Len(ips) : IsV4(ips[k])) =>
    \A k \in 1..Len(aggs) :
      LET a == ips[aggs[k].first]
          L == MaskOnes(aggs[k].agg.Mask)
      IN  /\ L \in 24..32
          /\ InPrefix(ips, a, L) = Pow2(32 - L)
          /\ \A l \in 24..(L - 1) : InPrefix(ips, a, l) # Pow2(32 - l)
          /\ IsCut(aggs[k].agg, a, L)
          /\ aggs[k].last - aggs[k].first + 1 = Pow2(32 - L)

\* C19 witness: a strict /30 or /31 and the address behind it on its own.
C19_Witness ==
  /\ mode = SubnetListStrict
  /\ \A k \in 1..Len(ips) : IsV4(ips[k])
  /\ Len(aggs) >= 2
  /\ MaskOnes(aggs[1].agg.Mask) \in {30, 31}
  /\ MaskOnes(aggs[2].agg.Mask) = 32

\* The addresses of the list in the /24 of a.
Same24(s, a) ==
  { s[k] : k \in { j \in 1..Len(s) :
                     \A i \in 0..23 : BitOf(Norm(s[j]), i) = BitOf(Norm(a), i) } }

\* C20: on an IPv4 list the loose subnets are one for each /24 that holds
\* an address of the list, in order, and each is the narrowest block of
\* prefix length 24..32 that holds all addresses of the list in that /24.
C20_LooseMinimalTight ==
  (mode = SubnetListLoose /\ \A k \in 1..Len(ips) : IsV4(ips[k])) =>
    /\ Len(aggs) = Cardinality({ Same24(ips, ips[k]) : k \in 1..Len(ips) })
    /\ \A k \in 1..Len(aggs) :
         LET a == ips[aggs[k].first]
             X == Same24(ips, a)
             L == MaskOnes(aggs[k].agg.Mask)
         IN  /\ L \in 24..32
             /\ IsCut(aggs[k].agg, a, L)
             /\ \A x \in X : InSubnet(aggs[k].agg, x)
             /\ L < 32 => \E x \in X : BitOf(Norm(x), L) # BitOf(Norm(a), L)
             /\ \A j \in 1..Len(aggs) : j # k => ips[aggs[j].first] \notin X

\* C20 witness: two /24s, one with several addresses under a prefix length
\* between 25 and 31 and one with a single address under /32.
C20_Witness ==
  /\ mode = SubnetListLoose
  /\ \A k \in 1..Len(ips) : IsV4(ips[k])
  /\ Len(aggs) = 2
  /\ MaskOnes(aggs[1].agg.Mask) \in 25..31
  /\ aggs[1].last > aggs[1].first
  /\ MaskOnes(aggs[2].agg.Mask) = 32

\* The upper 64 bits of an address followed by 64 zero bits.
Slash64(a) == Slice(a, 0, 8) \o [i \in 1..8 |-> 0]

Value4(a) == Uint32(To4(a))

\* C22: on an IPv4 list every strict range starts at the address of its
\* first position and ends at that of its last, the addresses it consumes
\* go up by exactly 1 as unsigned 32-bit values, and the Start of a range is
\* never the End of the range before it plus 1.
C22_StrictRangesMaximalRuns ==
  (mode = IPRangeListStrict /\ \A k \in 1..Len(ips) : IsV4(ips[k])) =>
    /\ \A k \in 1..Len(aggs) :
         /\ aggs[k].agg.StartIP = ips[aggs[k].first]
         /\ aggs[k].agg.EndIP = ips[aggs[k].last]
         /\ \A p \in aggs[k].first..(aggs[k].last - 1) :
              Value4(ips[p + 1]) = UAdd(Value4(ips[p]), 1)
    /\ \A k \in 1..(Len(aggs) - 1) :
         Value4(aggs[k + 1].agg.StartIP) # UAdd(Value4(aggs[k].agg.EndIP), 1)

\* C22 witness: a strict range of two or more IPv4 addresses, one of its
\* steps carrying into the third octet, and a further range.
C22_Witness ==
  /\ mode = IPRangeListStrict
  /\ \A k \in 1..Len(ips) : IsV4(ips[k])
  /\ Len(aggs) >= 2
  /\ \E k \in 1..Len(aggs) :
       /\ aggs[k].last >= aggs[k].first + 1
       /\ To4(aggs[k].agg.StartIP)[3] # To4(aggs[k].agg.EndIP)[3]

\* The upper and the lower 64 bits of an IPv6 address.
Upper64(a) == Slice(a, 0, 8)

Lower64(a) == Uint64(Slice(a, 8, 16))

\* C23: on an IPv6 list every strict range starts at the address of its
\* first position and ends at that of its last, all addresses it consumes
\* have the upper 64 bits of its Start, their lower 64 bits go up by exactly
\* 1, and a range ends where the next address has other upper 64 bits or is
\* not the successor in the lower 64 bits.
C23_StrictV6WithinSlash64 ==
  (mode = IPRangeListStrict /\ \A k \in 1..Len(ips) : ~IsV4(ips[k])) =>
    \A k \in 1..Len(aggs) :
      /\ aggs[k].agg.StartIP = ips[aggs[k].first]
      /\ aggs[k].agg.EndIP = ips[aggs[k].last]
      /\ Upper64(aggs[k].agg.StartIP) = Upper64(aggs[k].agg.EndIP)
      /\ \A p \in aggs[k].first..aggs[k].last :
           Upper64(ips[p]) = Upper64(aggs[k].agg.StartIP)
      /\ \A p \in aggs[k].first..(aggs[k].last - 1) :
           Lower64(ips[p + 1]) = UAdd(Lower64(ips[p]), 1)
      /\ aggs[k].last < Len(ips) =>
           \/ Upper64(ips[aggs[k].last + 1]) # Upper64(aggs[k].agg.StartIP)
           \/ Lower64(ips[aggs[k].last + 1]) # UAdd(Lower64(ips[aggs[k].last]), 1)

\* C23 witness: two strict IPv6 ranges one behind the other whose End and
\* Start are neighbours as 128-bit values, in different /64s, and a range
\* of several addresses.
C23_Witness ==
  /\ mode = IPRangeListStrict
  /\ \A k \in 1..Len(ips) : ~IsV4(ips[k])
  /\ \E k \in 1..(Len(aggs) - 1) :
       /\ aggs[k + 1].agg.StartIP = UAdd(aggs[k].agg.EndIP, 1)
       /\ Upper64(aggs[k + 1].agg.StartIP) # Upper64(aggs[k].agg.EndIP)
  /\ \E k \in 1..Len(aggs) : aggs[k].last > aggs[k].first

\* The value of an IPv4 address as an integer (the addresses of the lists
\* lie below 2^31).
Int4(a) == ((To4(a)[1] * 256 + To4(a)[2]) * 256 + To4(a)[3]) * 256 + To4(a)[4]

\* C24: on an IPv4 list a loose range started at position i consumes the
\* position i+n exactly while value(i+n) - value(i) < 255*n: every consumed
\* position passes the test, the first position left out fails it; and two
\* neighbours of the list less than 255 apart are consumed by one range.
C24_LooseRangeRule ==
  (mode = IPRangeListLoose /\ \A k \in 1..Len(ips) : IsV4(ips[k])) =>
    /\ \A k \in 1..Len(aggs) :
         LET i == aggs[k].first
         IN  /\ aggs[k].agg.StartIP = ips[i]
             /\ aggs[k].agg.EndIP = ips[aggs[k].last]
             /\ \A p \in (i + 1)..aggs[k].last :
                  Int4(ips[p]) - Int4(ips[i]) < 255 * (p - i)
             /\ aggs[k].last < Len(ips) =>
                  Int4(ips[aggs[k].last + 1]) - Int4(ips[i]) >= 255 * (aggs[k].last + 1 - i)
    /\ \A p \in 1..(Len(ips) - 1) :
         Int4(ips[p + 1]) - Int4(ips[p]) < 255 =>
           \E k \in 1..Len(aggs) : aggs[k].first <= p /\ p + 1 <= aggs[k].last

\* C24 witness: a loose range that took an address 255 or more above its
\* Start, and a neighbour less than 255 above an address that is not the
\* Start of its range; a further range follows.
C24_Witness ==
  /\ mode = IPRangeListLoose
  /\ \A k \in 1..Len(ips) : IsV4(ips[k])
  /\ Len(aggs) >= 2
  /\ \E k \in 1..Len(aggs) :
       /\ Int4(aggs[k].agg.EndIP) - Int4(aggs[k].agg.StartIP) >= 255
       /\ \E p \in (aggs[k].first + 1)..(aggs[k].last - 1) :
            Int4(ips[p + 1]) - Int4(ips[p]) < 255

\* The octets of an IPv4 address, 1 the first.
Octet(a, j) == To4(a)[j]

\* C25: on an IPv4 list, for every two addresses x, y that a strict block
\* consumes one after the other, either the last octet of y is that of x
\* plus 1 and the three higher octets are equal, or the third octet of y is
\* that of x plus 1 and the last octets are equal; in both cases the first
\* and second octets are equal and the last octet does not go from 255 to 0.
C25_BlockStrictRule ==
  (mode = IPBlockListStrict /\ \A k \in 1..Len(ips) : IsV4(ips[k])) =>
    \A k \in 1..Len(aggs) : \A p \in aggs[k].first..(aggs[k].last - 1) :
      LET x == ips[p]
          y == ips[p + 1]
      IN  /\ \/ /\ Octet(y, 4) = Octet(x, 4) + 1
                /\ \A j \in 1..3 : Octet(y, j) = Octet(x, j)
             \/ /\ Octet(y, 3) = Octet(x, 3) + 1
                /\ Octet(y, 4) = Octet(x, 4)
          /\ Octet(y, 1) = Octet(x, 1)
          /\ Octet(y, 2) = Octet(x, 2)
          /\ ~(Octet(x, 4) = 255 /\ Octet(y, 4) = 0)

\* The rule of the loose blocks between the start s of a block and an
\* address y: the first three octets equal and the last different, or the
\* first two and the last equal and the third different.
LooseBlockRule(s, y) ==
  \/ /\ \A j \in 1..3 : Octet(y, j) = Octet(s, j)
     /\ Octet(y, 4) # Octet(s, 4)
  \/ /\ \A j \in {1, 2, 4} : Octet(y, j) = Octet(s, j)
     /\ Octet(y, 3) # Octet(s, 3)

\* C26: on an IPv4 list a loose block starts at the address s of its first
\* position and ends at that of its last, every further address it consumes
\* satisfies the rule against s, and the address behind the block, if any,
\* does not.
C26_BlockLooseRule ==
  (mode = IPBlockListLoose /\ \A k \in 1..Len(ips) : IsV4(ips[k])) =>
    \A k \in 1..Len(aggs) :
      LET s == ips[aggs[k].first]
      IN  /\ aggs[k].agg.StartIP = s
          /\ aggs[k].agg.EndIP = ips[aggs[k].last]
          /\ \A p \in (aggs[k].first + 1)..aggs[k].last : LooseBlockRule(s, ips[p])
          /\ aggs[k].last < Len(ips) => ~LooseBlockRule(s, ips[aggs[k].last + 1])

\* C26 witness: a loose block that took one address by its last octet and
\* one by its third, and a block behind it.
C26_Witness ==
  /\ mode = IPBlockListLoose
  /\ \A k \in 1..Len(ips) : IsV4(ips[k])
  /\ Len(aggs) >= 2
  /\ \E p, q \in (aggs[1].first + 1)..aggs[1].last :
       /\ Octet(ips[p], 4) # Octet(ips[1], 4)
       /\ Octet(ips[q], 3) # Octet(ips[1], 3)

\* Two IPv4 subnets of one prefix length that are the two halves of the
\* block one bit wider.
Halves(m, n) ==
  /\ MaskOnes(m.Mask) = MaskOnes(n.Mask)
  /\ MaskOnes(m.Mask) >= 25
  /\ m.IP # n.IP
  /\ \A i \in 0..(MaskOnes(m.Mask) - 2) : BitOf(Norm(m.IP), i) = BitOf(Norm(n.IP), i)

\* C27: on an IPv4 list no two strict subnets are the two halves of one
\* block; every strict subnet has a prefix length L in 24..32, all its
\* 2^(32-L) addresses are in the list, and for L > 24 the block one bit
\* wider is not wholly in the list; every address of the list is in exactly
\* one strict subnet (the list of the widest blocks inside the input set).
C27_StrictIrreducible ==
  (mode = SubnetListStrict /\ \A k \in 1..Len(ips) : IsV4(ips[k])) =>
    /\ \A j, k \in 1..Len(aggs) : ~Halves(aggs[j].agg, aggs[k].agg)
    /\ \A k \in 1..Len(aggs) :
         LET L == MaskOnes(aggs[k].agg.Mask)
             b == aggs[k].agg.IP
         IN  /\ L \in 24..32
             /\ InPrefix(ips, b, L) = Pow2(32 - L)
             /\ L > 24 => InPrefix(ips, b, L - 1) < Pow2(33 - L)
    /\ \A p \in 1..Len(ips) :
         Cardinality({ k \in 1..Len(aggs) : InSubnet(aggs[k].agg, ips[p]) }) = 1

\* C27 witness: four addresses that fill a /30, returned as that one /30,
\* not as its two /31 halves.
C27_Witness ==
  /\ mode = SubnetListStrict
  /\ Len(ips) = 4
  /\ \A k \in 1..Len(ips) : IsV4(ips[k])
  /\ Len(aggs) = 1
  /\ MaskOnes(aggs[1].agg.Mask) = 30

\* The subnet m lies inside the subnet n.
SubnetInside(m, n) ==
  /\ MaskOnes(n.Mask) <= MaskOnes(m.Mask)
  /\ InSubnet(n, m.IP)

\* The range r lies inside the range s.
RangeInside(r, s) == InInterval(s, r.StartIP) /\ InInterval(s, r.EndIP)

\* C28: every subnet of the strict subnet list lies inside a subnet of the
\* loose subnet list of the same addresses, every range of the strict
\* range list inside a range of the loose range list, and the loose list
\* has no more entries than the strict one.
C28_LooseCoarsensStrict ==
  /\ mode = SubnetListStrict =>
       \A loose \in {ipsToSubnetsLoose(ips)} :
         /\ \A k \in 1..Len(aggs) :
              \E j \in 1..Len(loose) : SubnetInside(aggs[k].agg, loose[j])
         /\ Len(loose) <= Len(aggs)
  /\ mode = IPRangeListStrict =>
       \A loose \in {ipsToIPRangesLoose(ips)} :
         /\ \A k \in 1..Len(aggs) :
              \E j \in 1..Len(loose) : RangeInside(aggs[k].agg, loose[j])
         /\ Len(loose) <= Len(aggs)

\* C28 witness: a strict range list with a range of several addresses and
\* more entries than the loose range list of the same addresses, which has
\* two or more.
C28_Witness ==
  /\ mode = IPRangeListStrict
  /\ \E k \in 1..Len(aggs) : aggs[k].last > aggs[k].first
  /\ Len(ipsToIPRangesLoose(ips)) >= 2
  /\ Len(ipsToIPRangesLoose(ips)) < Len(aggs)

ScanOf(m, s) ==
  CASE m = SubnetListStrict  -> SubnetStrictLoop(s, 1, <<>>)
    [] m = SubnetListLoose   -> SubnetLooseLoop(s, 1, <<>>)
    [] m = IPRangeListStrict -> RangeStrictScan(s)
    [] m = IPRangeListLoose  -> RangeLooseScan(s)
    [] m = IPBlockListStrict -> BlockStrictScan(s)
    [] m = IPBlockListLoose  -> BlockLooseScan(s)

AggregatesIn(t) == [k \in 1..Len(t) |-> t[k].agg]

\* C30: on the list of sortAgentIPs (IPv4 addresses, then IPv6 addresses)
\* every aggregate of each of the six listings consumes addresses of one
\* family, its ends (or its base address and mask) are of that family, and
\* the list of aggregates is the list for the IPv4 addresses alone followed
\* by the list for the IPv6 addresses alone.
C30_FamilySeparation ==
  mode \in OutputModes =>
    LET v4 == SelectSeq(ips, IsV4)
        v6 == SelectSeq(ips, LAMBDA a : ~IsV4(a))
    IN  /\ ips = v4 \o v6
        /\ \A k \in 1..Len(aggs) :
             /\ \A p \in aggs[k].first..aggs[k].last :
                  IsV4(ips[p]) = IsV4(ips[aggs[k].first])
             /\ mode \in SubnetModes =>
                  /\ IsV4(aggs[k].agg.IP) = IsV4(ips[aggs[k].first])
                  /\ MaskBits(aggs[k].agg.Mask) = (IF IsV4(ips[aggs[k].first]) THEN 32 ELSE 128)
             /\ mode \notin SubnetModes =>
                  /\ IsV4(aggs[k].agg.StartIP) = IsV4(ips[aggs[k].first])
                  /\ IsV4(aggs[k].agg.EndIP) = IsV4(ips[aggs[k].first])
        /\ AggregatesIn(aggs) = AggregatesIn(ScanOf(mode, v4)) \o AggregatesIn(ScanOf(mode, v6))

\* C30 witness: a listing of a list with two or more addresses of each
\* family whose last IPv4 aggregate and first IPv6 aggregate both consume
\* several addresses.
C30_Witness ==
  /\ mode \in OutputModes
  /\ \E k \in 1..(Len(aggs) - 1) :
       /\ aggs[k].last > aggs[k].first
       /\ aggs[k + 1].last > aggs[k + 1].first
       /\ IsV4(ips[aggs[k].last])
       /\ ~IsV4(ips[aggs[k + 1].first])

====
